---- MODULE Spec2Model ----
(***************************************************************************)
(* Portable-PDB reader and debug-information index.                        *)
(*                                                                         *)
(*   DocumentIndex  (src/documentindex.cc)                                 *)
(*   PortablePdbFile (src/google_cloud_debugger_lib/portablepdbfile.cc)    *)
(*                                                                         *)
(* C++ vectors are TLA+ sequences shifted by one: element i of a vector v  *)
(* is v[i + 1], and v.size() is Len(v).  The metadata tables keep an       *)
(* unused placeholder at element 0, so that row k of a table (1-based, as  *)
(* in the file format) is element k of the vector; every loop of the code  *)
(* starts at element 1.                                                    *)
(***************************************************************************)
EXTENDS Integers, Sequences, FiniteSets, TLC

VARIABLES
  pdb,            \* what DocumentIndex sees through the PDB file's accessors
  doc,            \* one DocumentIndex object
  file_content,   \* PortablePdbFile::pdb_file_binary_stream_: the bytes
  stream,         \* ... its cursor (iterator_) and virtual end (end_)
  heaps,          \* stream/heap headers of the PortablePdbFile
  tables,         \* metadata-table state of the PortablePdbFile
  call,           \* the last PortablePdbFile operation and how it returned
  document_indices_,  \* PortablePdbFile::document_indices_
  threads,        \* the accessor calls in progress on concurrent threads
  dbg             \* one debugger value object and its last operation

vars == <<pdb, doc, file_content, stream, heaps, tables, call,
          document_indices_, threads, dbg>>

(***************************************************************************)
(* Bounds of the model.                                                    *)
(***************************************************************************)
MaxDocs == 2        \* document rows of the PDB
MaxMethods == 2     \* MethodDebugInformation rows
MaxRecords == 3     \* sequence-point records of one method
MaxScopes == 3      \* LocalScope rows
MaxFile == 5        \* bytes of the PDB file
MaxGuids == 2       \* GUIDs of the GUID heap
MaxName == 2        \* bytes of a name a thread goes on from

(***************************************************************************)
(* Integer widths.  A uint32_t that takes part in 32-bit arithmetic or is  *)
(* compared with UINT32_MAX is kept as its two 16-bit halves [hi, lo], so  *)
(* that the arithmetic is exact modulo 2^32.  Row indices, sizes and       *)
(* positions never leave the small naturals and are kept as naturals.      *)
(***************************************************************************)
U32(n) == [hi |-> (n \div 65536) % 65536, lo |-> n % 65536]

UINT32_MAX == [hi |-> 65535, lo |-> 65535]

\* a + b in uint32_t
U32Add(a, b) ==
  LET lo == a.lo + b.lo
      hi == a.hi + b.hi + (lo \div 65536)
  IN  [hi |-> hi % 65536, lo |-> lo % 65536]

\* a - b in uint32_t
U32Sub(a, b) ==
  LET borrow == IF a.lo < b.lo THEN 1 ELSE 0
  IN  [hi |-> (a.hi - b.hi - borrow + 131072) % 65536,
       lo |-> (a.lo - b.lo + 65536) % 65536]

\* a * 16 in uint32_t
U32Mul16(a) ==
  [hi |-> (a.hi * 16 + (a.lo * 16) \div 65536) % 65536,
   lo |-> (a.lo * 16) % 65536]

U32Less(a, b) == a.hi < b.hi \/ (a.hi = b.hi /\ a.lo < b.lo)

\* std::min / std::max on uint32_t
U32Min(a, b) == IF U32Less(a, b) THEN a ELSE b
U32Max(a, b) == IF U32Less(a, b) THEN b ELSE a

\* std::min on row indices
Min(a, b) == IF a < b THEN a ELSE b

\* size <= i, where the int i is converted to size_t: a negative i becomes
\* a value above every size
SizeLeqInt(size, i) == IF i < 0 THEN TRUE ELSE size <= i

\* vector access: v[i] and v.size()
Size(v) == Len(v)
At(v, i) == v[i + 1]

(***************************************************************************)
(* DocumentIndex (documentindex.cc).                                       *)
(*                                                                         *)
(* A SequencePointRecord is [il_delta, start_line, end_line, start_col,    *)
(* end_col, kind]; kind is what IsHidden / IsDocumentChange read.          *)
(***************************************************************************)
kDebuggerHidden == 1

IsHidden(rec) == rec.kind = "hidden"

IsDocumentChange(rec) == rec.kind = "document_change"

\* pdb.GetHeapString(index)
GetHeapStringOf(p, index) == p.strings[index]

\* an il_offset that the hidden records do not move
IlOffsetAdd_SkipsHidden(il_offset, rec) ==
  IF IsHidden(rec) THEN il_offset ELSE U32Add(il_offset, rec.il_delta)

\* il_offset += seq_point_record.il_delta  (uint32_t)
IlOffsetAdd(il_offset, rec) == U32Add(il_offset, rec.il_delta)

\* the SequencePoint built from one record
IsHiddenPoint_Never(rec) == FALSE
IsHiddenPoint(rec) == IsHidden(rec) \/ IsDocumentChange(rec)

\* a SequencePoint that takes its start_line from the record's end_line
MakeSequencePoint_EndLine(rec, il_offset) ==
  [ is_hidden  |-> IsHiddenPoint(rec),
    start_line |-> rec.end_line,
    end_line   |-> rec.end_line,
    start_col  |-> rec.start_col,
    end_col    |-> rec.end_col,
    il_offset  |-> il_offset ]

MakeSequencePoint(rec, il_offset) ==
  [ is_hidden  |-> IsHiddenPoint(rec),
    start_line |-> rec.start_line,
    end_line   |-> rec.end_line,
    start_col  |-> rec.start_col,
    end_col    |-> rec.end_col,
    il_offset  |-> il_offset ]

\* first_line / last_line are updated by the points that are not hidden
UpdateLines(method, rec, seq_point) ==
  IF ~seq_point.is_hidden
  THEN [method EXCEPT !.first_line = U32Min(rec.start_line, method.first_line),
                      !.last_line  = U32Max(rec.end_line, method.last_line)]
  ELSE method

\* a document-change record makes ParseMethod return false
AbortsOnRecord_Never(rec) == FALSE
AbortsOnRecord(rec) == IsDocumentChange(rec)

\* the loop over sequence_point_info.records, from record k on
RECURSIVE SequencePointLoop(_, _, _, _)
SequencePointLoop(records, k, il_offset, method) ==
  IF k > Len(records) THEN [ok |-> TRUE, method |-> method]
  ELSE IF AbortsOnRecord(records[k]) THEN [ok |-> FALSE, method |-> method]
  ELSE LET off == IlOffsetAdd(il_offset, records[k])
           sp  == MakeSequencePoint(records[k], off)
           m1  == UpdateLines(method, records[k], sp)
           m2  == [m1 EXCEPT !.sequence_points = Append(@, sp)]
       IN  SequencePointLoop(records, k + 1, off, m2)

\* a default-constructed Scope
EmptyScope ==
  [ local_var_row_start_index   |-> 0, local_var_row_end_index   |-> 0,
    local_const_row_start_index |-> 0, local_const_row_end_index |-> 0,
    start_offset |-> 0, length |-> 0, index |-> 0,
    local_variables |-> <<>>, local_constants |-> <<>> ]

\* the LocalVariableInfo of rows [from, to) of the LocalVariable table
RECURSIVE LocalVariablesOf(_, _, _)
LocalVariablesOf(p, from, to) ==
  IF from >= to THEN <<>>
  ELSE LET row == At(p.local_variable_table, from)
       IN  << [ debugger_hidden |-> (row.attributes = kDebuggerHidden),
                slot |-> row.index,
                name |-> GetHeapStringOf(p, row.name) ] >>
           \o LocalVariablesOf(p, from + 1, to)

\* the LocalConstantInfo of rows [from, to) of the LocalConstant table
RECURSIVE LocalConstantsOf(_, _, _)
LocalConstantsOf(p, from, to) ==
  IF from >= to THEN <<>>
  ELSE LET row == At(p.local_constant_table, from)
       IN  << [ name |-> GetHeapStringOf(p, row.name) ] >>
           \o LocalConstantsOf(p, from + 1, to)

\* the end of a run of rows: the table size, or the next scope's list start
\* when that is smaller
RunEnd(table_size, has_next, next_list) ==
  IF has_next THEN Min(table_size, next_list) ELSE table_size

\* the range check of ParseScope on one run
RangeIsCorrupt(start_index, end_index, table_size) ==
  end_index < start_index \/ end_index > table_size

\* ParseScope: [ok, scope]
ParseScope(p, local_scope_row, scope_index) ==
  LET scope_table == p.local_scope_table
      var_size    == Size(p.local_variable_table)
      const_size  == Size(p.local_constant_table)
      has_next    == scope_index + 1 < Size(scope_table)
      next_row    == IF has_next THEN At(scope_table, scope_index + 1)
                     ELSE local_scope_row
      s0 == [ EmptyScope EXCEPT
                !.local_var_row_start_index   = local_scope_row.variable_list,
                !.local_var_row_end_index     =
                    RunEnd(var_size, has_next, next_row.variable_list),
                !.local_const_row_start_index = local_scope_row.constant_list,
                !.local_const_row_end_index   =
                    RunEnd(const_size, has_next, next_row.constant_list),
                !.start_offset = local_scope_row.start_offset,
                !.length       = local_scope_row.length,
                !.index        = scope_index ]
      s1 == [ s0 EXCEPT !.local_variables =
                LocalVariablesOf(p, s0.local_var_row_start_index,
                                 s0.local_var_row_end_index) ]
      s2 == [ s1 EXCEPT !.local_constants =
                LocalConstantsOf(p, s1.local_const_row_start_index,
                                 s1.local_const_row_end_index) ]
  IN  IF scope_index >= Size(scope_table)
        THEN [ok |-> FALSE, scope |-> EmptyScope]
      ELSE IF RangeIsCorrupt(s0.local_var_row_start_index,
                             s0.local_var_row_end_index, var_size)
        THEN [ok |-> FALSE, scope |-> s0]
      ELSE IF RangeIsCorrupt(s1.local_const_row_start_index,
                             s1.local_const_row_end_index, const_size)
        THEN [ok |-> FALSE, scope |-> s1]
      ELSE [ok |-> TRUE, scope |-> s2]

\* does ParseMethod take the LocalScope row at `index` for method_def?
ScopeRowSelected_Any(p, index, method_def) == TRUE
ScopeRowSelected(p, index, method_def) ==
  At(p.local_scope_table, index).method_def = method_def

\* the loop of ParseMethod over the LocalScope table, from row `index` on:
\* a scope whose ParseScope failed is logged and pushed all the same
RECURSIVE LocalScopeLoop(_, _, _, _)
LocalScopeLoop(p, index, method_def, method) ==
  IF index >= Size(p.local_scope_table) THEN method
  ELSE IF ~ScopeRowSelected(p, index, method_def)
    THEN LocalScopeLoop(p, index + 1, method_def, method)
  ELSE LET r == ParseScope(p, At(p.local_scope_table, index), index)
       IN  LocalScopeLoop(p, index + 1, method_def,
             [method EXCEPT !.local_scope = Append(@, r.scope)])

\* ParseMethod: [ok, method]
ParseMethod(p, debug_info_row, method_def, doc_index) ==
  LET m0 == [ method_def |-> method_def, first_line |-> UINT32_MAX,
              last_line |-> U32(0), sequence_points |-> <<>>,
              local_scope |-> <<>> ]
      blob == p.blobs[debug_info_row.sequence_points]
      r == SequencePointLoop(blob.records, 1, U32(0), m0)
  IN  IF ~blob.stream_ok THEN [ok |-> FALSE, method |-> m0]
      ELSE IF ~blob.parse_ok THEN [ok |-> FALSE, method |-> m0]
      ELSE IF ~r.ok THEN [ok |-> FALSE, method |-> r.method]
      ELSE [ok |-> TRUE, method |-> LocalScopeLoop(p, 1, method_def, r.method)]

\* does Initialize take the MethodDebugInformation row at method_def?
MethodRowSelected_Any(p, method_def, doc_index) == TRUE
MethodRowSelected(p, method_def, doc_index) ==
  At(p.method_debug_info_table, method_def).document = doc_index

\* the loop of Initialize over the MethodDebugInformation table
RECURSIVE MethodLoop(_, _, _, _)
MethodLoop(p, method_def, doc_index, methods) ==
  IF method_def >= Size(p.method_debug_info_table)
    THEN [ok |-> TRUE, methods |-> methods]
  ELSE IF ~MethodRowSelected(p, method_def, doc_index)
    THEN MethodLoop(p, method_def + 1, doc_index, methods)
  ELSE LET r == ParseMethod(p, At(p.method_debug_info_table, method_def),
                            method_def, doc_index)
       IN  IF ~r.ok THEN [ok |-> FALSE, methods |-> methods]
           ELSE MethodLoop(p, method_def + 1, doc_index,
                           Append(methods, r.method))

\* the argument checks of Initialize
DocIndexRejected_RangeOnly(p, doc_index) ==
  SizeLeqInt(Size(p.document_table), doc_index)
DocIndexRejected(p, doc_index) ==
  \/ doc_index = 0
  \/ SizeLeqInt(Size(p.document_table), doc_index)

\* a freshly constructed DocumentIndex
NewDocumentIndex ==
  [ state |-> "new", doc_index |-> 0, result |-> FALSE, accessed |-> FALSE,
    file_path_ |-> "", methods_ |-> <<>> ]

\* DocumentIndex::Initialize(pdb, doc_index) on a fresh object.  `accessed`
\* tells whether a reading accessor of the PDB file was called.
InitializeResult(p, doc_index) ==
  LET base == [NewDocumentIndex EXCEPT !.state = "initialized",
                                       !.doc_index = doc_index]
  IN  IF DocIndexRejected(p, doc_index) THEN base
      ELSE
        LET doc_row == At(p.document_table, doc_index)
            name    == p.names[doc_row.name]
            hash    == p.blobs[doc_row.hash]
            r       == MethodLoop(p, 1, doc_index, <<>>)
            read    == [base EXCEPT !.accessed = TRUE]
        IN  IF ~name.ok THEN read
            ELSE IF ~hash.stream_ok \/ ~hash.parse_ok
              THEN [read EXCEPT !.file_path_ = name.path]
            ELSE [read EXCEPT !.file_path_ = name.path,
                              !.methods_ = r.methods, !.result = r.ok]

Initialize(doc_index) ==
  /\ doc.state = "new"
  /\ doc' = InitializeResult(pdb, doc_index)
  /\ UNCHANGED <<dbg, pdb, file_content, stream, heaps, tables, call,
                 document_indices_, threads>>

(***************************************************************************)
(* The PDB contents the DocumentIndex specifications start from.           *)
(***************************************************************************)
SeqsUpTo(S, n) == UNION { [1..k -> S] : k \in 0..n }

DocPath(i) == <<"p0.cs", "p1.cs", "p2.cs", "p3.cs", "p4.cs">>[i + 1]

HeapStrings == [i \in 0..4 |-> <<"", "a", "b", "c", "d">>[i + 1]]

ZeroDocumentRow == [name |-> 0, hash_algorithm |-> 0, hash |-> 0, language |-> 0]

\* n document rows behind the placeholder; size 0 is the table before parsing
DocumentTableOf(size) ==
  [i \in 1..size |->
     IF i = 1 THEN ZeroDocumentRow
     ELSE [name |-> i - 1, hash_algorithm |-> 1, hash |-> 0, language |-> 1]]

ZeroMethodRow == [document |-> 0, sequence_points |-> 0]

\* the rows `docs` (a sequence of document fields) behind the placeholder;
\* row k keeps its sequence points in blob k
MethodTableOf(docs) ==
  <<ZeroMethodRow>> \o
  [k \in 1..Len(docs) |-> [document |-> docs[k], sequence_points |-> k]]

ZeroScopeRow ==
  [method_def |-> 0, variable_list |-> 0, constant_list |-> 0,
   start_offset |-> 0, length |-> 0]

\* a LocalVariable / LocalConstant table of `size` elements
LocalVariableTableOf(size) ==
  [i \in 1..size |-> [attributes |-> (i % 2), index |-> i - 1, name |-> (i - 1) % 5]]

LocalConstantTableOf(size) ==
  [i \in 1..size |-> [name |-> (i + 1) % 5, signature |-> 0]]

\* the outcomes of GetDocumentName and of the hash blob, per heap fault
HeapFaults == {"none", "name", "hash_stream", "hash_read"}

NamesOf(fault) ==
  [i \in 0..(MaxDocs + 1) |-> [ok |-> fault # "name", path |-> DocPath(i)]]

HashBlobOf(fault) ==
  [stream_ok |-> fault # "hash_stream", parse_ok |-> fault # "hash_read",
   records |-> <<>>]

GoodBlob(records) == [stream_ok |-> TRUE, parse_ok |-> TRUE, records |-> records]

\* blob 0 is the documents' hash, blob k the sequence points of method row k
BlobsOf(fault, method_blobs) ==
  [i \in 0..Len(method_blobs) |->
     IF i = 0 THEN HashBlobOf(fault) ELSE method_blobs[i]]

Point(il_delta, start_line, end_line, kind) ==
  [il_delta |-> il_delta, start_line |-> U32(start_line),
   end_line |-> U32(end_line), start_col |-> U32(1), end_col |-> U32(2),
   kind |-> kind]

RecordKinds == {"point", "hidden", "document_change"}

\* the records of the sequence-point specification; two deltas of 2^31 carry
\* out of 32 bits
RecordSet ==
  { Point(d, l[1], l[2], k) :
      d \in {U32(0), U32(3), [hi |-> 32768, lo |-> 0]}, l \in {<<5, 5>>, <<7, 9>>}, k \in RecordKinds }

\* the sequence-point blobs of the document specification
BlobChoices ==
  { [stream_ok |-> FALSE, parse_ok |-> TRUE, records |-> <<>>],
    [stream_ok |-> TRUE, parse_ok |-> FALSE, records |-> <<>>],
    GoodBlob(<<>>),
    GoodBlob(<<Point(U32(0), 5, 5, "point"), Point(U32(3), 7, 9, "hidden")>>),
    GoodBlob(<<Point(U32(0), 5, 5, "point"),
              Point(U32(3), 7, 9, "document_change")>>) }

ScopeRowSet ==
  [method_def : 1..2, variable_list : 1..2, constant_list : 1..2,
   start_offset : {0, 4}, length : {6}]

FixedScopeTable ==
  << ZeroScopeRow,
     [method_def |-> 1, variable_list |-> 1, constant_list |-> 1,
      start_offset |-> 0, length |-> 6] >>

\* no debugger value object (DbgObject, DbgClassField) has been constructed
NoDbgObject == [kind |-> "none"]

\* the table members of a freshly constructed PortablePdbFile
NewTables ==
  [ state |-> "new",
    metadata_table_header_ |-> [valid_mask |-> {}, num_rows |-> <<>>],
    rows_per_table |-> <<>>, parsed |-> <<>> ]

IdleFile ==
  /\ file_content = <<>>
  /\ stream = [iterator_ |-> 0, end_ |-> 0]
  /\ heaps = [blob_offset |-> 0, stream_headers_ |-> <<>>]
  /\ tables = NewTables
  /\ call = [op |-> "none"]
  /\ document_indices_ = <<>>
  /\ threads = <<>>
  /\ dbg = NoDbgObject

\* documents, heap faults and the MethodDebugInformation table vary
InitDoc ==
  /\ \E size \in 0..(MaxDocs + 1), fault \in HeapFaults,
        docs \in SeqsUpTo(0..MaxDocs, MaxMethods) :
       \E method_blobs \in [1..Len(docs) -> BlobChoices] :
         pdb = [ document_table |-> DocumentTableOf(size),
                 method_debug_info_table |-> MethodTableOf(docs),
                 local_scope_table |-> FixedScopeTable,
                 local_variable_table |-> LocalVariableTableOf(2),
                 local_constant_table |-> LocalConstantTableOf(2),
                 names |-> NamesOf(fault),
                 blobs |-> BlobsOf(fault, method_blobs),
                 strings |-> HeapStrings ]
  /\ doc = NewDocumentIndex
  /\ IdleFile

\* one document with one method; its sequence-point records vary
InitSeq ==
  /\ \E records \in SeqsUpTo(RecordSet, MaxRecords) :
       pdb = [ document_table |-> DocumentTableOf(2),
               method_debug_info_table |-> MethodTableOf(<<1>>),
               local_scope_table |-> FixedScopeTable,
               local_variable_table |-> LocalVariableTableOf(2),
               local_constant_table |-> LocalConstantTableOf(2),
               names |-> NamesOf("none"),
               blobs |-> BlobsOf("none", <<GoodBlob(records)>>),
               strings |-> HeapStrings ]
  /\ doc = NewDocumentIndex
  /\ IdleFile

\* one document with two methods; the LocalScope table and the sizes of the
\* LocalVariable table vary
InitScope ==
  /\ \E rows \in SeqsUpTo(ScopeRowSet, MaxScopes), var_size \in 2..3 :
       pdb = [ document_table |-> DocumentTableOf(2),
               method_debug_info_table |-> MethodTableOf(<<1, 1>>),
               local_scope_table |-> <<ZeroScopeRow>> \o rows,
               local_variable_table |-> LocalVariableTableOf(var_size),
               local_constant_table |-> LocalConstantTableOf(2),
               names |-> NamesOf("none"),
               blobs |-> BlobsOf("none",
                           << GoodBlob(<<Point(U32(0), 5, 5, "point")>>),
                              GoodBlob(<<>>) >>),
               strings |-> HeapStrings ]
  /\ doc = NewDocumentIndex
  /\ IdleFile

NextDoc == \E doc_index \in (-1)..(MaxDocs + 1) : Initialize(doc_index)

SpecDoc == InitDoc /\ [][NextDoc]_vars

SpecSeq == InitSeq /\ [][NextDoc]_vars

SpecScope == InitScope /\ [][NextDoc]_vars

(***************************************************************************)
(* Claims about DocumentIndex.                                             *)
(***************************************************************************)
Initialized == doc.state = "initialized"

Succeeded == Initialized /\ doc.result

\* the sequence-point blob of MethodDebugInformation row method_def, and its
\* decoded records
BlobOfRow(method_def) ==
  pdb.blobs[At(pdb.method_debug_info_table, method_def).sequence_points]

RecordsOfRow(method_def) == BlobOfRow(method_def).records

\* the rows of the MethodDebugInformation table that reference document d
MethodRowsOf(d) ==
  { j \in 1..(Size(pdb.method_debug_info_table) - 1) :
      At(pdb.method_debug_info_table, j).document = d }

\* the rows of the LocalScope table owned by method m
ScopeRowsOf(m) ==
  { i \in 1..(Size(pdb.local_scope_table) - 1) :
      At(pdb.local_scope_table, i).method_def = m }

\* C1: Initialize(pdb, doc_index) returns false for doc_index = 0 and for
\* every doc_index >= the size of the document table.
C1_BadDocIndexRejected ==
  ( /\ Initialized
    /\ \/ doc.doc_index = 0
       \/ doc.doc_index >= Size(pdb.document_table) )
  => doc.result = FALSE

\* a call with doc_index 0 on a PDB whose accessors would all succeed
C1_Witness ==
  /\ Initialized
  /\ doc.doc_index = 0
  /\ Size(pdb.document_table) > 1
  /\ pdb.names[0].ok /\ pdb.blobs[0].stream_ok /\ pdb.blobs[0].parse_ok
  /\ doc.result = FALSE

ScopeIsCorrupt(s) ==
  \/ s.local_var_row_end_index < s.local_var_row_start_index
  \/ s.local_var_row_end_index > Size(pdb.local_variable_table)
  \/ s.local_const_row_end_index < s.local_const_row_start_index
  \/ s.local_const_row_end_index > Size(pdb.local_constant_table)

\* C2: a LocalScope row with a variable or constant range with end < start
\* or end > table length aborts the parse of the document: no MethodInfo of a
\* successfully built index holds such a scope.
C2_NoCorruptScopeExposed ==
  Succeeded =>
    \A k \in 1..Len(doc.methods_) :
      \A n \in 1..Len(doc.methods_[k].local_scope) :
        ~ScopeIsCorrupt(doc.methods_[k].local_scope[n])

\* the end the claim gives the run of scope row i
ExpectedEnd(table, i, list_of) ==
  IF i + 1 < Size(pdb.local_scope_table)
  THEN Min(Size(table), list_of[At(pdb.local_scope_table, i + 1)])
  ELSE Size(table)

\* C3: every Scope of a successfully built index, built from LocalScope row
\* i, ends its variable range at min(table size, variable_list of row i+1)
\* (the table size for the last row) with start <= end; the same for the
\* constant range.
C3_ScopeRanges ==
  Succeeded =>
    \A k \in 1..Len(doc.methods_) :
      \A n \in 1..Len(doc.methods_[k].local_scope) :
        LET s == doc.methods_[k].local_scope[n]
        IN  /\ s.local_var_row_end_index =
                 ExpectedEnd(pdb.local_variable_table, s.index,
                             [r \in ScopeRowSet |-> r.variable_list])
            /\ s.local_var_row_start_index <= s.local_var_row_end_index
            /\ s.local_const_row_end_index =
                 ExpectedEnd(pdb.local_constant_table, s.index,
                             [r \in ScopeRowSet |-> r.constant_list])
            /\ s.local_const_row_start_index <= s.local_const_row_end_index

HasDocumentChange(records) ==
  \E k \in 1..Len(records) : IsDocumentChange(records[k])

\* C6: if a sequence-point record of a method whose row references document
\* d is a document-change marker, Initialize for d returns false and no
\* MethodInfo for that method is added.
C6_DocumentChangeAborts ==
  Initialized /\ ~DocIndexRejected(pdb, doc.doc_index) =>
    \A j \in MethodRowsOf(doc.doc_index) :
      HasDocumentChange(RecordsOfRow(j)) =>
        /\ doc.result = FALSE
        /\ \A k \in 1..Len(doc.methods_) : doc.methods_[k].method_def # j

\* a parse that reached a document-change marker behind an ordinary point
C6_Witness ==
  /\ Initialized /\ doc.doc_index = 1 /\ doc.accessed
  /\ 1 \in MethodRowsOf(1)
  /\ Len(RecordsOfRow(1)) >= 2
  /\ RecordsOfRow(1)[1].kind = "point"
  /\ IsDocumentChange(RecordsOfRow(1)[2])
  /\ doc.result = FALSE

VisibleRecords(records) ==
  { k \in 1..Len(records) : ~IsHidden(records[k]) }

\* the least / greatest of a non-empty set of uint32_t values
U32Least(S) == CHOOSE x \in S : \A y \in S : ~U32Less(y, x)
U32Greatest(S) == CHOOSE x \in S : \A y \in S : ~U32Less(x, y)

\* C7: first_line is the minimum start_line and last_line the maximum
\* end_line over the non-hidden sequence points; hidden points affect
\* neither; a method with no non-hidden point is accepted and keeps
\* first_line = UINT32_MAX and last_line = 0.
C7_FirstLastLine ==
  /\ Succeeded =>
       \A k \in 1..Len(doc.methods_) :
         LET m    == doc.methods_[k]
             recs == RecordsOfRow(m.method_def)
             vis  == VisibleRecords(recs)
         IN  IF vis = {}
             THEN m.first_line = UINT32_MAX /\ m.last_line = U32(0)
             ELSE /\ m.first_line = U32Least({recs[i].start_line : i \in vis})
                  /\ m.last_line = U32Greatest({recs[i].end_line : i \in vis})
  /\ ( /\ Initialized /\ ~DocIndexRejected(pdb, doc.doc_index)
       /\ \A j \in MethodRowsOf(doc.doc_index) :
            /\ BlobOfRow(j).stream_ok /\ BlobOfRow(j).parse_ok
            /\ \A i \in 1..Len(RecordsOfRow(j)) : IsHidden(RecordsOfRow(j)[i])
       /\ pdb.names[doc.doc_index].ok
       /\ pdb.blobs[0].stream_ok /\ pdb.blobs[0].parse_ok )
     => doc.result = TRUE

\* a method with a hidden point on a line below its only visible point
C7_Witness ==
  /\ Succeeded /\ Len(doc.methods_) = 1
  /\ LET recs == RecordsOfRow(doc.methods_[1].method_def)
     IN  /\ Len(recs) >= 2
         /\ IsHidden(recs[1]) /\ recs[1].start_line = U32(5)
         /\ ~IsHidden(recs[2]) /\ recs[2].start_line = U32(7)
         /\ VisibleRecords(recs) = {2}
  /\ doc.methods_[1].first_line = U32(7)

\* the sum of the il_delta of records 1..k, not reduced modulo 2^32: its lo
\* half is below 2^16, its hi half is unbounded
RECURSIVE DeltaSum(_, _)
DeltaSum(records, k) ==
  IF k = 0 THEN [hi |-> 0, lo |-> 0]
  ELSE LET prev == DeltaSum(records, k - 1)
           lo   == prev.lo + records[k].il_delta.lo
       IN  [hi |-> prev.hi + records[k].il_delta.hi + (lo \div 65536),
            lo |-> lo % 65536]

\* C8: the k-th sequence point's il_offset is the sum of the il_delta of
\* records 1..k, and il_offset is non-decreasing along sequence_points, for
\* every list of 32-bit deltas.
C8_IlOffsetIsDeltaSum ==
  Succeeded =>
    \A k \in 1..Len(doc.methods_) :
      LET m    == doc.methods_[k]
          recs == RecordsOfRow(m.method_def)
      IN  \A i \in 1..Len(m.sequence_points) :
            /\ m.sequence_points[i].il_offset = DeltaSum(recs, i)
            /\ i > 1 => ~U32Less(m.sequence_points[i].il_offset,
                                 m.sequence_points[i - 1].il_offset)

\* C9: after a successful Initialize for document d, methods_ holds one
\* MethodInfo for each MethodDebugInformation row whose document is d and
\* none for another row, in ascending row order, method_def being the row's
\* position; a document no row references has an empty list.
C9_MethodsOfDocument ==
  Succeeded =>
    LET sel == MethodRowsOf(doc.doc_index)
        n   == Len(doc.methods_)
    IN  /\ n = Cardinality(sel)
        /\ { doc.methods_[k].method_def : k \in 1..n } = sel
        /\ \A k \in 1..n : \A l \in 1..n :
             k < l => doc.methods_[k].method_def < doc.methods_[l].method_def

\* the second of two rows is the only one of the document
C9_Witness ==
  /\ Succeeded
  /\ Size(pdb.method_debug_info_table) = 3
  /\ MethodRowsOf(doc.doc_index) = {2}
  /\ At(pdb.method_debug_info_table, 1).document \notin {0, doc.doc_index}
  /\ Len(doc.methods_) = 1 /\ doc.methods_[1].method_def = 2

\* C10: local_scope of a parsed method m holds one Scope for each LocalScope
\* row whose method_def is m, in table order, wherever those rows sit and
\* whoever owns their neighbours; each carries its row's start_offset and
\* length.
C10_ScopesOfMethod ==
  Succeeded =>
    \A k \in 1..Len(doc.methods_) :
      LET m   == doc.methods_[k]
          sel == ScopeRowsOf(m.method_def)
          n   == Len(m.local_scope)
      IN  /\ n = Cardinality(sel)
          /\ { m.local_scope[i].index : i \in 1..n } = sel
          /\ \A i \in 1..n : \A j \in 1..n :
               i < j => m.local_scope[i].index < m.local_scope[j].index
          /\ \A i \in 1..n :
               LET row == At(pdb.local_scope_table, m.local_scope[i].index)
               IN  /\ m.local_scope[i].start_offset = row.start_offset
                   /\ m.local_scope[i].length = row.length

\* method 1 owns rows 1 and 3, method 2 the row between them
C10_Witness ==
  /\ Succeeded
  /\ Size(pdb.local_scope_table) = 4
  /\ ScopeRowsOf(1) = {1, 3} /\ ScopeRowsOf(2) = {2}
  /\ At(pdb.local_scope_table, 1).start_offset
       # At(pdb.local_scope_table, 3).start_offset
  /\ Len(doc.methods_) = 2
  /\ Len(doc.methods_[1].local_scope) = 2
  /\ Len(doc.methods_[2].local_scope) = 1

(***************************************************************************)
(* The bounded binary reader (CustomBinaryStream) over file_content.  A    *)
(* reader state st is [iterator_, end_]: the cursor and the virtual end of *)
(* the stream, both positions from the start of the file.                  *)
(***************************************************************************)
FileEnd(f) == Len(f)

SeekFromOrigin(f, st, position) ==
  IF position <= FileEnd(f)
  THEN [ok |-> TRUE, st |-> [st EXCEPT !.iterator_ = position]]
  ELSE [ok |-> FALSE, st |-> st]

SetStreamLength(f, st, length) ==
  IF st.iterator_ + length <= FileEnd(f)
  THEN [ok |-> TRUE, st |-> [st EXCEPT !.end_ = st.iterator_ + length]]
  ELSE [ok |-> FALSE, st |-> st]

ResetStreamLength(f, st) == [st EXCEPT !.end_ = FileEnd(f)]

HasNext(st) == st.iterator_ < st.end_

Current(st) == st.iterator_

ReadByte(f, st) ==
  IF HasNext(st)
  THEN [ok |-> TRUE, value |-> f[st.iterator_ + 1],
        st |-> [st EXCEPT !.iterator_ = @ + 1]]
  ELSE [ok |-> FALSE, value |-> 0, st |-> st]

ReadBytes(f, st, n) ==
  IF st.iterator_ + n <= st.end_
  THEN [ok |-> TRUE, bytes |-> SubSeq(f, st.iterator_ + 1, st.iterator_ + n),
        st |-> [st EXCEPT !.iterator_ = @ + n]]
  ELSE [ok |-> FALSE, bytes |-> <<>>, st |-> st]

\* the compressed unsigned integer: one byte below 0x80; two bytes when the
\* first is 10xxxxxx, the tag bits masked off; else four bytes, the top bit
\* masked off
ReadCompressedUInt32(f, st) ==
  LET b0 == ReadByte(f, st)
      b1 == ReadByte(f, b0.st)
      b2 == ReadByte(f, b1.st)
      b3 == ReadByte(f, b2.st)
      failed == [ok |-> FALSE, value |-> 0, st |-> st]
  IN  IF ~b0.ok THEN failed
      ELSE IF b0.value < 128 THEN b0
      ELSE IF b0.value < 192
        THEN IF ~b1.ok THEN [failed EXCEPT !.st = b0.st]
             ELSE [ok |-> TRUE, st |-> b1.st,
                   value |-> (b0.value - 128) * 256 + b1.value]
      ELSE IF ~b1.ok THEN [failed EXCEPT !.st = b0.st]
      ELSE IF ~b2.ok THEN [failed EXCEPT !.st = b1.st]
      ELSE IF ~b3.ok THEN [failed EXCEPT !.st = b2.st]
      ELSE [ok |-> TRUE, st |-> b3.st,
            value |-> (b0.value - 128) * 16777216 + b1.value * 65536
                      + b2.value * 256 + b3.value]

(***************************************************************************)
(* PortablePdbFile::GetDocumentName (portablepdbfile.cc).                  *)
(*                                                                         *)
(* A result is [exit, ret, st, name]: the return statement taken, the      *)
(* value returned, the reader state left behind and the bytes of the name. *)
(***************************************************************************)
NameExit(exit, ret, st, name) ==
  [exit |-> exit, ret |-> ret, st |-> st, name |-> name]

\* what the failure returns of the part loop do to the stream length before
\* they return false
FailReset(f, st) == ResetStreamLength(f, st)

\* ... and what the failed return to the index list does: nothing
SeekBackFail(f, st) == st

\* result.pop_back() and the return of the name
PopBack(result) == SubSeq(result, 1, Len(result) - 1)

\* the while loop over the part indices
RECURSIVE NamePartLoop(_, _, _, _, _, _)
NamePartLoop(f, st, blob_offset, index_stream_length, separator, result) ==
  IF ~HasNext(st) THEN NameExit("loop_end", TRUE, st, result)
  ELSE
    LET part  == ReadCompressedUInt32(f, st)
        index_stream_pos == Current(part.st)
        seek  == SeekFromOrigin(f, part.st, blob_offset + part.value)
        clen  == ReadCompressedUInt32(f, seek.st)
        comp  == ReadBytes(f, clen.st, clen.value)
        back  == SeekFromOrigin(f, comp.st, index_stream_pos)
        again == SetStreamLength(f, back.st, index_stream_length)
    IN  IF ~part.ok
          THEN NameExit("part_index", FALSE, FailReset(f, part.st), result)
        ELSE IF part.value = 0
          THEN NamePartLoop(f, part.st, blob_offset, index_stream_length,
                            separator, Append(result, separator))
        ELSE IF ~seek.ok
          THEN NameExit("part_seek", FALSE, FailReset(f, seek.st), result)
        ELSE IF ~clen.ok
          THEN NameExit("part_length", FALSE, FailReset(f, clen.st), result)
        ELSE IF ~comp.ok
          THEN NameExit("part_bytes", FALSE, FailReset(f, comp.st), result)
        ELSE IF ~back.ok
          THEN NameExit("seek_back", FALSE, SeekBackFail(f, back.st),
                        result \o comp.bytes)
        ELSE IF ~again.ok
          THEN NameExit("set_length_again", FALSE, SeekBackFail(f, again.st),
                        result \o comp.bytes)
        ELSE NamePartLoop(f, again.st, blob_offset, index_stream_length,
                          separator,
                          Append(result \o comp.bytes, separator))

\* GetDocumentName with the seek in front of the index check
DocumentNameParts_SeeksFirst(f, st, blob_offset, index) ==
  LET seek == SeekFromOrigin(f, st, blob_offset + index)
      len  == ReadCompressedUInt32(f, seek.st)
      set  == SetStreamLength(f, len.st, len.value)
      sep  == ReadByte(f, set.st)
  IN  IF index = 0 THEN NameExit("index_zero", FALSE, seek.st, <<>>)
      ELSE IF ~len.ok THEN NameExit("length_prefix", FALSE, len.st, <<>>)
      ELSE IF ~set.ok THEN NameExit("set_length", FALSE, set.st, <<>>)
      ELSE IF ~sep.ok
        THEN NameExit("separator", FALSE, FailReset(f, sep.st), <<>>)
      ELSE NamePartLoop(f, sep.st, blob_offset, len.value, sep.value, <<>>)

\* GetDocumentName(index) up to the end of the part loop
DocumentNameParts(f, st, blob_offset, index) ==
  LET seek == SeekFromOrigin(f, st, blob_offset + index)
      \* the result of this first seek is not looked at
      len  == ReadCompressedUInt32(f, seek.st)
      set  == SetStreamLength(f, len.st, len.value)
      sep  == ReadByte(f, set.st)
  IN  IF index = 0 THEN NameExit("index_zero", FALSE, st, <<>>)
      ELSE IF ~len.ok THEN NameExit("length_prefix", FALSE, len.st, <<>>)
      ELSE IF ~set.ok THEN NameExit("set_length", FALSE, set.st, <<>>)
      ELSE IF ~sep.ok
        THEN NameExit("separator", FALSE, FailReset(f, sep.st), <<>>)
      ELSE NamePartLoop(f, sep.st, blob_offset, len.value, sep.value, <<>>)

\* what pop_back() on an empty string, which is undefined, can do: leave the
\* string empty and go on, or end the process
PopBackOutcomes(result) ==
  IF result = <<>> THEN {"returns", "crashes"} ELSE {"returns"}

\* the return of GetDocumentName behind the part loop: pop_back and
\* ResetStreamLength
NameCallReturns(index, r) ==
  IF r.exit # "loop_end"
  THEN /\ stream' = r.st
       /\ call' = [op |-> "GetDocumentName", index |-> index,
                   exit |-> r.exit, ret |-> FALSE, out |-> <<>>]
  ELSE \E outcome \in PopBackOutcomes(r.name) :
         IF outcome = "crashes"
         THEN /\ stream' = r.st
              /\ call' = [op |-> "crashed", index |-> index,
                          exit |-> "pop_back", ret |-> FALSE,
                          out |-> <<>>]
         ELSE /\ stream' = ResetStreamLength(file_content, r.st)
              /\ call' = [op |-> "GetDocumentName", index |-> index,
                          exit |-> "success", ret |-> TRUE,
                          out |-> PopBack(r.name)]

GetDocumentName(index) ==
  /\ call.op # "crashed"
  /\ NameCallReturns(index,
       DocumentNameParts(file_content, stream, heaps.blob_offset, index))
  /\ UNCHANGED <<dbg, pdb, doc, file_content, heaps, tables, document_indices_,
                 threads>>

(***************************************************************************)
(* The other read accessors of PortablePdbFile (portablepdbfile.cc).  Each *)
(* result is [exit, ret, st, out]: the return statement taken, the value   *)
(* returned, the reader state left behind and the bytes handed out.        *)
(***************************************************************************)
Returns(exit, ret, st, out) ==
  [exit |-> exit, ret |-> ret, st |-> st, out |-> out]

\* a seek to a position computed in uint32_t; the files of the model are
\* shorter than 2^16 bytes, so a position with a nonzero upper half is past
\* the end of the file
SeekFromOrigin32(f, st, position) ==
  IF position.hi = 0 THEN SeekFromOrigin(f, st, position.lo)
  ELSE [ok |-> FALSE, st |-> st]

\* GetHeapGuid: uint32_t offset = (index - 1) * 16
GuidOffset(index) == U32Mul16(U32Sub(index, U32(1)))

GetHeapGuidResult(f, st, guid_offset, index) ==
  LET seek == SeekFromOrigin32(f, st,
                               U32Add(U32(guid_offset), GuidOffset(index)))
      read == ReadBytes(f, seek.st, 16)
  IN  IF ~seek.ok THEN Returns("seek", FALSE, seek.st, <<>>)
      ELSE IF ~read.ok THEN Returns("read", FALSE, read.st, <<>>)
      ELSE Returns("success", TRUE, read.st, read.bytes)

\* GetHash: the blob at blob heap offset index
GetHashResult(f, st, blob_offset, index) ==
  LET seek == SeekFromOrigin(f, st, blob_offset + index)
      len  == ReadCompressedUInt32(f, seek.st)
      read == ReadBytes(f, len.st, len.value)
  IN  IF ~seek.ok THEN Returns("seek", FALSE, seek.st, <<>>)
      ELSE IF ~len.ok THEN Returns("length", FALSE, len.st, <<>>)
      ELSE IF ~read.ok
        THEN Returns("read", FALSE, read.st, [k \in 1..len.value |-> 0])
      ELSE Returns("success", TRUE, read.st, read.bytes)

\* GetMethodSeqInfo: ParseFrom reads `consumed` bytes of the blob (no more
\* than the stream length allows) and returns parse_ok
GetMethodSeqInfoResult(f, st, blob_offset, sequence_index, parse_ok, consumed) ==
  LET seek  == SeekFromOrigin(f, st, blob_offset + sequence_index)
      len   == ReadCompressedUInt32(f, seek.st)
      set   == SetStreamLength(f, len.st, len.value)
      read  == ReadBytes(f, set.st, Min(consumed, len.value))
      reset == ResetStreamLength(f, read.st)
  IN  IF ~seek.ok THEN Returns("seek", FALSE, seek.st, <<>>)
      ELSE IF ~len.ok THEN Returns("length", FALSE, len.st, <<>>)
      ELSE IF ~set.ok THEN Returns("set_length", FALSE, set.st, <<>>)
      ELSE Returns("parsed", parse_ok, reset,
                   IF parse_ok THEN read.bytes ELSE <<>>)

\* GetString: the bytes from the offset to the first 0, the cursor left
\* where it is
RECURSIVE GetString(_, _)
GetString(f, offset) ==
  IF offset >= FileEnd(f) THEN [ok |-> FALSE, value |-> <<>>]
  ELSE IF f[offset + 1] = 0 THEN [ok |-> TRUE, value |-> <<>>]
  ELSE LET rest == GetString(f, offset + 1)
       IN  [ok |-> rest.ok,
            value |-> IF rest.ok THEN <<f[offset + 1]>> \o rest.value
                      ELSE <<>>]

QueryReturns(op, index, r) ==
  /\ stream' = r.st
  /\ call' = [op |-> op, index |-> index, exit |-> r.exit, ret |-> r.ret,
              out |-> r.out]

GetHeapGuid(index) ==
  /\ call.op # "crashed"
  /\ QueryReturns("GetHeapGuid", index,
       GetHeapGuidResult(file_content, stream, heaps.guid_offset, index))
  /\ UNCHANGED <<dbg, pdb, doc, file_content, heaps, tables, document_indices_,
                 threads>>

GetHash(index) ==
  /\ call.op # "crashed"
  /\ QueryReturns("GetHash", index,
       GetHashResult(file_content, stream, heaps.blob_offset, index))
  /\ UNCHANGED <<dbg, pdb, doc, file_content, heaps, tables, document_indices_,
                 threads>>

GetMethodSeqInfo(sequence_index, parse_ok, consumed) ==
  /\ call.op # "crashed"
  /\ QueryReturns("GetMethodSeqInfo", sequence_index,
       GetMethodSeqInfoResult(file_content, stream, heaps.blob_offset,
                              sequence_index, parse_ok, consumed))
  /\ UNCHANGED <<dbg, pdb, doc, file_content, heaps, tables, document_indices_,
                 threads>>

GetHeapString(index) ==
  /\ call.op # "crashed"
  /\ LET r == GetString(file_content, heaps.strings_offset + index)
     IN  QueryReturns("GetHeapString", index,
                      Returns("returned", r.ok, stream, r.value))
  /\ UNCHANGED <<dbg, pdb, doc, file_content, heaps, tables, document_indices_,
                 threads>>

(***************************************************************************)
(* The files the accessor specifications start from: the bytes from the    *)
(* start of the blob heap region to the end of the file.                   *)
(***************************************************************************)
ByteSet == {0, 1, 2, 128}

IdleDocumentIndex ==
  /\ pdb = [document_table |-> <<>>]
  /\ doc = NewDocumentIndex
  /\ document_indices_ = <<>>
  /\ threads = <<>>
  /\ dbg = NoDbgObject

\* a parsed file: no stream length is set
InitName ==
  /\ \E n \in 1..MaxFile : file_content \in [1..n -> ByteSet]
  /\ stream = [iterator_ |-> 0, end_ |-> Len(file_content)]
  /\ \E offset \in {0, 1} :
       heaps = [ blob_offset |-> offset,
                 stream_headers_ |->
                   << [name |-> "#Blob", offset |-> offset,
                       size |-> Len(file_content) - offset] >> ]
  /\ tables = [NewTables EXCEPT !.state = "parsed"]
  /\ call = [op |-> "none"]
  /\ IdleDocumentIndex

NextName == \E index \in 0..MaxFile : GetDocumentName(index)

SpecName == InitName /\ [][NextName]_vars

(***************************************************************************)
(* PortablePdbFile::GetStream and ParseCompressedMetadataTableStream.      *)
(***************************************************************************)
\* table kinds (enum MetadataTable) and the size of rows_per_table
Document == 48
MethodDebugInformation == 49
LocalScope == 50
LocalVariable == 51
LocalConstant == 52
MaxValue == 64

PdbTables ==
  <<Document, MethodDebugInformation, LocalScope, LocalVariable, LocalConstant>>

\* find_if over stream_headers_: the first header with the name
RECURSIVE GetStream(_, _)
GetStream(headers, name) ==
  IF headers = <<>> THEN [ok |-> FALSE, header |-> [name |-> name, offset |-> 0, size |-> 0]]
  ELSE IF Head(headers).name = name THEN [ok |-> TRUE, header |-> Head(headers)]
  ELSE GetStream(Tail(headers), name)

\* the loop without "++referenced_table": every set bit gets the first count
RowsPerTable_FirstCount(valid_mask, num_rows) ==
  [ k \in 1..MaxValue |->
      IF (k - 1) \in valid_mask THEN At(num_rows, 0) ELSE 0 ]

\* the loop that maps each table kind to its row count: element table_index
\* of rows_per_table is 0 when the bit is clear, and otherwise
\* num_rows[referenced_table], referenced_table being the number of set bits
\* below table_index
RowsPerTable(valid_mask, num_rows) ==
  [ k \in 1..MaxValue |->
      LET table_index == k - 1
          referenced_table ==
            Cardinality({ b \in valid_mask : b < table_index })
      IN  IF table_index \in valid_mask
            THEN At(num_rows, referenced_table)
            ELSE 0 ]

\* the bound of the loop that looks for rows of other tables
NonPdbLoopBound(rows) == At(rows, Document)

\* the loop with the elements of the five PDB tables passed over
NonPdbLoop_SkipsPdbTables(rows) ==
  LET kinds == { PdbTables[k] : k \in 1..Len(PdbTables) }
      stops == { i \in 0..(NonPdbLoopBound(rows) - 1) :
                   i >= Size(rows) \/ (i \notin kinds /\ At(rows, i) # 0) }
      first == CHOOSE i \in stops : \A j \in stops : i <= j
  IN  IF stops = {} THEN "passed"
      ELSE IF first >= Size(rows) THEN "out_of_bounds"
      ELSE "other_table"

\* "Confirm the PDB only contains PDB-related metadata tables": the loop
\* stops at the first element i below the bound that is past the array (a
\* read out of bounds) or holds a row count other than 0
NonPdbLoop(rows) ==
  LET stops == { i \in 0..(NonPdbLoopBound(rows) - 1) :
                   i >= Size(rows) \/ At(rows, i) # 0 }
      first == CHOOSE i \in stops : \A j \in stops : i <= j
  IN  IF stops = {} THEN "passed"
      ELSE IF first >= Size(rows) THEN "out_of_bounds"
      ELSE "other_table"

\* the five ParseMetadataTableRow calls, the one for table `fails` (if any)
\* failing: the tables decoded before it, with their row counts
RECURSIVE ParsedTables(_, _, _)
ParsedTables(rows, k, fails) ==
  IF k > Len(PdbTables) \/ PdbTables[k] = fails THEN <<>>
  ELSE << [table |-> PdbTables[k], rows |-> At(rows, PdbTables[k])] >>
       \o ParsedTables(rows, k + 1, fails)

TableCallReturns(exit, ret, st, tbl) ==
  /\ stream' = st
  /\ tables' = tbl
  /\ call' = [op |-> "ParseCompressedMetadataTableStream", exit |-> exit,
              ret |-> ret]

\* ParseCompressedMetadataTableStream on the reader state st of a file f
\* with the stream directory `headers` and the table members tbl.
\* header_ok: ParseFrom decodes the table header, which then holds
\* valid_mask and one row count per set bit; fails: the table whose rows
\* cannot be decoded (0 for none)
TablesResult(f, st, headers, tbl, header_ok, valid_mask, num_rows, fails) ==
  LET hdr   == GetStream(headers, "#~")
      seek  == SeekFromOrigin(f, st, hdr.header.offset)
      set   == SetStreamLength(f, seek.st, hdr.header.size)
      reset == ResetStreamLength(f, set.st)
      rows  == RowsPerTable(valid_mask, num_rows)
      check == NonPdbLoop(rows)
      done  == ParsedTables(rows, 1, fails)
      failed == [tbl EXCEPT !.state = "failed"]
      built == [failed EXCEPT
                  !.metadata_table_header_ =
                    [valid_mask |-> valid_mask, num_rows |-> num_rows],
                  !.rows_per_table = rows]
      R(exit, ret, s, t) == [exit |-> exit, ret |-> ret, st |-> s, tables |-> t]
  IN  IF ~hdr.ok THEN R("no_stream", FALSE, st, failed)
      ELSE IF ~seek.ok \/ ~set.ok THEN R("stream_range", FALSE, reset, failed)
      ELSE IF ~header_ok THEN R("table_header", FALSE, reset, failed)
      ELSE IF check = "out_of_bounds"
        THEN R("out_of_bounds", FALSE, reset, built)
      ELSE IF check = "other_table" THEN R("other_table", FALSE, reset, built)
      ELSE IF fails # 0
        THEN R("table_rows", FALSE, reset, [built EXCEPT !.parsed = done])
      ELSE R("success", TRUE, reset,
             [built EXCEPT !.state = "parsed", !.parsed = done])

\* a read past rows_per_table is undefined: the call then returns either
\* value
ParseCompressedMetadataTableStream(header_ok, valid_mask, num_rows, fails) ==
  /\ tables.state = "new"
  /\ call.op # "crashed"
  /\ LET r == TablesResult(file_content, stream, heaps.stream_headers_, tables,
                           header_ok, valid_mask, num_rows, fails)
     IN  IF r.exit = "out_of_bounds"
         THEN \E ret \in BOOLEAN :
                TableCallReturns(r.exit, ret, r.st, r.tables)
         ELSE TableCallReturns(r.exit, r.ret, r.st, r.tables)
  /\ UNCHANGED <<dbg, pdb, doc, file_content, heaps, document_indices_, threads>>

(***************************************************************************)
(* The table headers the table specification draws from.                   *)
(***************************************************************************)
\* the kinds whose bit may be set: Module, TypeDef, two PDB tables and
\* ImportScope
MaskKinds == {0, 2, Document, MethodDebugInformation, 53}

RowCounts == {0, 1, 3, 65}

\* a file whose stream directory was read: the "#~" header is missing, in
\* range or out of range
InitTables ==
  /\ file_content = [i \in 1..MaxFile |-> 0]
  /\ stream = [iterator_ |-> 0, end_ |-> MaxFile]
  /\ \E present \in BOOLEAN, offset \in {0, MaxFile + 1}, size \in {1, MaxFile + 1} :
       heaps = [ blob_offset |-> 0,
                 stream_headers_ |->
                   << [name |-> "#Blob", offset |-> 0, size |-> 1] >> \o
                   ( IF present
                     THEN << [name |-> "#~", offset |-> offset, size |-> size] >>
                     ELSE <<>> ) ]
  /\ tables = NewTables
  /\ call = [op |-> "none"]
  /\ IdleDocumentIndex

NextTables ==
  /\ tables.state = "new"
  /\ \E header_ok \in BOOLEAN, valid_mask \in SUBSET MaskKinds,
        fails \in {0, Document, MethodDebugInformation, LocalScope,
                   LocalVariable, LocalConstant} :
      \E num_rows \in [1..Cardinality(valid_mask) -> RowCounts] :
        ParseCompressedMetadataTableStream(header_ok, valid_mask, num_rows,
                                           fails)

SpecTables == InitTables /\ [][NextTables]_vars

(***************************************************************************)
(* PortablePdbFile::InitializeFromFile (portablepdbfile.cc).               *)
(*                                                                         *)
(* pdb holds what the file decodes to: its stream directory and the rows   *)
(* of its tables.  A fault names the one decoding step of the reader or of *)
(* a row parser that fails on this file ("none": none does).               *)
(***************************************************************************)
\* ParsePortablePdbStream without the ResetStreamLength call in front of the
\* return for a header that ParseFrom cannot decode
PdbStreamResult_KeepsLengthOnFailure(f, st, headers, pdb_header_ok) ==
  LET hdr   == GetStream(headers, "#Pdb")
      seek  == SeekFromOrigin(f, st, hdr.header.offset)
      set   == SetStreamLength(f, seek.st, hdr.header.size)
      reset == ResetStreamLength(f, set.st)
  IN  IF ~hdr.ok THEN [exit |-> "no_stream", ret |-> FALSE, st |-> st]
      ELSE IF ~seek.ok \/ ~set.ok
        THEN [exit |-> "stream_range", ret |-> FALSE, st |-> reset]
      ELSE IF ~pdb_header_ok
        THEN [exit |-> "pdb_header", ret |-> FALSE, st |-> set.st]
      ELSE [exit |-> "success", ret |-> TRUE, st |-> reset]

\* ParsePortablePdbStream
PdbStreamResult(f, st, headers, pdb_header_ok) ==
  LET hdr   == GetStream(headers, "#Pdb")
      seek  == SeekFromOrigin(f, st, hdr.header.offset)
      set   == SetStreamLength(f, seek.st, hdr.header.size)
      reset == ResetStreamLength(f, set.st)
  IN  IF ~hdr.ok THEN [exit |-> "no_stream", ret |-> FALSE, st |-> st]
      ELSE IF ~seek.ok \/ ~set.ok
        THEN [exit |-> "stream_range", ret |-> FALSE, st |-> reset]
      ELSE IF ~pdb_header_ok
        THEN [exit |-> "pdb_header", ret |-> FALSE, st |-> reset]
      ELSE [exit |-> "success", ret |-> TRUE, st |-> reset]

\* InitializeBlobHeap, InitializeStringsHeap, InitializeGuidHeap: GetStream
\* into the heap header member
InitializeHeap_Unchecked(headers, name, member, h) ==
  LET found == GetStream(headers, name)
  IN  [ok |-> TRUE, heaps |-> [h EXCEPT ![member] = found.header.offset]]
InitializeHeap(headers, name, member, h) ==
  LET found == GetStream(headers, name)
  IN  [ok |-> found.ok,
       heaps |-> IF found.ok THEN [h EXCEPT ![member] = found.header.offset]
                 ELSE h]

\* the valid mask and the row counts of the table header of the file
ValidMaskOf(p, fault) ==
  { Document, MethodDebugInformation, LocalScope, LocalVariable, LocalConstant }
    \cup (IF fault.step = "other_table" THEN {0} ELSE {})

NumRowsOf(p, fault) ==
  (IF fault.step = "other_table" THEN <<1>> ELSE <<>>) \o
  << Size(p.document_table) - 1, Size(p.method_debug_info_table) - 1,
     Size(p.local_scope_table) - 1, Size(p.local_variable_table) - 1,
     Size(p.local_constant_table) - 1 >>

\* the loop that builds one DocumentIndex per document row, from row i on
RECURSIVE DocumentIndexLoop_SkipsFailed(_, _, _, _)
DocumentIndexLoop_SkipsFailed(p, size, i, indices) ==
  IF i >= size THEN [ok |-> TRUE, indices |-> indices, tried |-> i - 1]
  ELSE LET document_index == InitializeResult(p, i)
       IN  DocumentIndexLoop_SkipsFailed(p, size, i + 1,
             IF document_index.result THEN Append(indices, document_index)
             ELSE indices)
RECURSIVE DocumentIndexLoop_OffByOne(_, _, _, _)
DocumentIndexLoop_OffByOne(p, size, i, indices) ==
  IF i >= size - 1 THEN [ok |-> TRUE, indices |-> indices, tried |-> i - 1]
  ELSE LET document_index == InitializeResult(p, i)
       IN  IF ~document_index.result
             THEN [ok |-> FALSE, indices |-> indices, tried |-> i]
           ELSE DocumentIndexLoop_OffByOne(p, size, i + 1,
                                           Append(indices, document_index))
RECURSIVE DocumentIndexLoop(_, _, _, _)
DocumentIndexLoop(p, size, i, indices) ==
  IF i >= size THEN [ok |-> TRUE, indices |-> indices, tried |-> i - 1]
  ELSE LET document_index == InitializeResult(p, i)
       IN  IF ~document_index.result
             THEN [ok |-> FALSE, indices |-> indices, tried |-> i]
           ELSE DocumentIndexLoop(p, size, i + 1,
                                  Append(indices, document_index))

Step(name, ok) == [step |-> name, ok |-> ok]

\* the object a fresh PortablePdbFile is
NewHeaps ==
  [stream_headers_ |-> <<>>, blob_offset |-> 0, strings_offset |-> 0,
   guid_offset |-> 0]

\* InitializeFromFile on a fresh object: the members it leaves behind, the
\* value it returns and the steps it ran, each with its outcome
InitializeFromFileSteps(p, f, fault, docs) ==
  LET st0      == [iterator_ |-> 0, end_ |-> FileEnd(f)]
      consume  == fault.step # "ConsumeFile"
      root     == fault.step # "root_header"
      number_streams == Len(p.directory)
      read     == IF fault.step = "stream_header"
                  THEN Min(fault.at - 1, number_streams) ELSE number_streams
      dir_ok   == read = number_streams
      headers  == SubSeq(p.directory, 1, read)
      h0       == [NewHeaps EXCEPT !.stream_headers_ = headers]
      blob     == InitializeHeap(headers, "#Blob", "blob_offset", h0)
      strings  == InitializeHeap(headers, "#Strings", "strings_offset",
                                 blob.heaps)
      guid     == InitializeHeap(headers, "#GUID", "guid_offset", strings.heaps)
      tbl      == TablesResult(f, st0, headers, NewTables,
                               fault.step # "table_header",
                               ValidMaskOf(p, fault), NumRowsOf(p, fault),
                               IF fault.step = "table_rows" THEN fault.at
                               ELSE 0)
      pdbs     == PdbStreamResult(f, tbl.st, headers,
                                  fault.step # "pdb_header")
      s1 == << Step("ConsumeFile", consume) >>
      s2 == s1 \o << Step("root_header", root) >>
      s3 == s2 \o [k \in 1..Min(read + 1, number_streams) |->
                     Step("stream_header", k <= read)]
      s4 == s3 \o << Step("InitializeBlobHeap", blob.ok) >>
      s5 == s4 \o << Step("InitializeStringsHeap", strings.ok) >>
      s6 == s5 \o << Step("InitializeGuidHeap", guid.ok) >>
      s7 == s6 \o << Step("ParseCompressedMetadataTableStream", tbl.ret) >>
      s8 == s7 \o << Step("ParsePortablePdbStream", pdbs.ret) >>
      s9 == s8 \o [k \in 1..docs.tried |->
                     Step("DocumentIndex", k <= Len(docs.indices))]
      R(ret, steps, st, h, t, d) ==
        [ret |-> ret, steps |-> steps, st |-> st, heaps |-> h, tables |-> t,
         document_indices_ |-> d]
  IN  IF ~consume THEN R(FALSE, s1, st0, NewHeaps, NewTables, <<>>)
      ELSE IF ~root THEN R(FALSE, s2, st0, NewHeaps, NewTables, <<>>)
      ELSE IF ~dir_ok THEN R(FALSE, s3, st0, h0, NewTables, <<>>)
      ELSE IF ~blob.ok THEN R(FALSE, s4, st0, blob.heaps, NewTables, <<>>)
      ELSE IF ~strings.ok
        THEN R(FALSE, s5, st0, strings.heaps, NewTables, <<>>)
      ELSE IF ~guid.ok THEN R(FALSE, s6, st0, guid.heaps, NewTables, <<>>)
      ELSE IF ~tbl.ret THEN R(FALSE, s7, tbl.st, guid.heaps, tbl.tables, <<>>)
      ELSE IF ~pdbs.ret
        THEN R(FALSE, s8, pdbs.st, guid.heaps, tbl.tables, <<>>)
      ELSE R(docs.ok, s9, pdbs.st, guid.heaps, tbl.tables, docs.indices)

InitializeFromFileResult(p, f, fault) ==
  InitializeFromFileSteps(p, f, fault,
    DocumentIndexLoop(p, Size(p.document_table), 1, <<>>))

\* the members InitializeFromFile leaves behind and the value it returns
FileCallReturns(r) ==
  /\ stream' = r.st
  /\ heaps' = r.heaps
  /\ tables' = r.tables
  /\ document_indices_' = r.document_indices_
  /\ call' = [op |-> "InitializeFromFile", ret |-> r.ret, steps |-> r.steps]

InitializeFromFile(fault) ==
  /\ call.op = "none"
  /\ FileCallReturns(InitializeFromFileResult(pdb, file_content, fault))
  /\ UNCHANGED <<dbg, pdb, doc, file_content, threads>>

(***************************************************************************)
(* The files the InitializeFromFile specification starts from.             *)
(***************************************************************************)
\* the required streams, in the order a compiler writes the directory
StreamNames == <<"#Pdb", "#~", "#Strings", "#GUID", "#Blob">>

RequiredStreams == { StreamNames[k] : k \in 1..Len(StreamNames) }

\* the directory without the streams `missing`; the stream `far` lies past
\* the end of the file
IsPresent(missing, header) == header.name \notin missing

DirectoryOf(missing, far) ==
  LET all == [k \in 1..Len(StreamNames) |->
                [name |-> StreamNames[k],
                 offset |-> IF StreamNames[k] = far THEN MaxFile + 1 ELSE k - 1,
                 size |-> 1]]
      Present(header) == IsPresent(missing, header)
  IN  SelectSeq(all, Present)

BadBlob == [stream_ok |-> TRUE, parse_ok |-> FALSE, records |-> <<>>]

FileFaults ==
  { [step |-> name, at |-> 0] :
      name \in {"none", "ConsumeFile", "root_header", "table_header",
                "other_table", "pdb_header"} }
  \cup { [step |-> "stream_header", at |-> k] : k \in 1..Len(StreamNames) }
  \cup { [step |-> "table_rows", at |-> PdbTables[k]] : k \in 1..Len(PdbTables) }

InitFile ==
  /\ \E missing \in SUBSET RequiredStreams, far \in {"none", "#~", "#Pdb"},
        size \in 1..(MaxDocs + 1), fault \in {"none", "name"},
        docs \in SeqsUpTo(1..MaxDocs, 2) :
       \E method_blobs \in [1..Len(docs) -> {GoodBlob(<<>>), BadBlob}] :
         /\ far # "none" => missing = {}
         /\ pdb = [ directory |-> DirectoryOf(missing, far),
                    document_table |-> DocumentTableOf(size),
                    method_debug_info_table |-> MethodTableOf(docs),
                    local_scope_table |-> FixedScopeTable,
                    local_variable_table |-> LocalVariableTableOf(2),
                    local_constant_table |-> LocalConstantTableOf(2),
                    names |-> NamesOf(fault),
                    blobs |-> BlobsOf("none", method_blobs),
                    strings |-> HeapStrings ]
  /\ doc = NewDocumentIndex
  /\ file_content = [i \in 1..MaxFile |-> 0]
  /\ stream = [iterator_ |-> 0, end_ |-> 0]
  /\ heaps = NewHeaps
  /\ tables = NewTables
  /\ call = [op |-> "none"]
  /\ document_indices_ = <<>>
  /\ threads = <<>>
  /\ dbg = NoDbgObject

NextFile ==
  /\ call.op = "none"
  /\ \E fault \in FileFaults : InitializeFromFile(fault)

SpecFile == InitFile /\ [][NextFile]_vars

(***************************************************************************)
(* Claims about InitializeFromFile.                                        *)
(***************************************************************************)
FileReturned == call.op = "InitializeFromFile"

\* the required streams the directory of the file does not name
MissingStreams ==
  RequiredStreams \ { pdb.directory[k].name : k \in 1..Len(pdb.directory) }

\* C11: InitializeFromFile returns false whenever the stream directory lacks
\* a stream named #Strings, #Blob, #GUID, #~ or #Pdb, whichever subset of
\* them is missing.
C11_MissingStreamFails ==
  (FileReturned /\ MissingStreams # {}) => ~call.ret

\* only #Pdb, the last stream looked up, is missing, and every step before
\* its lookup succeeded
C11_Witness ==
  /\ FileReturned
  /\ MissingStreams = {"#Pdb"}
  /\ Len(call.steps) = 2 + Len(pdb.directory) + 5
  /\ \A k \in 1..(Len(call.steps) - 1) : call.steps[k].ok
  /\ ~call.ret

\* the steps of a run in which nothing fails
ExpectedSteps ==
  << "ConsumeFile", "root_header" >>
  \o [k \in 1..Len(pdb.directory) |-> "stream_header"]
  \o << "InitializeBlobHeap", "InitializeStringsHeap", "InitializeGuidHeap",
        "ParseCompressedMetadataTableStream", "ParsePortablePdbStream" >>
  \o [k \in 1..(Size(pdb.document_table) - 1) |-> "DocumentIndex"]

\* C12: InitializeFromFile runs root header, stream directory, heaps,
\* metadata tables, #Pdb stream and then one DocumentIndex per document row
\* in this order; the first step that fails is the last step run and makes
\* it return false; it returns true only if every step ran and succeeded.
C12_StepsInOrder ==
  FileReturned =>
    LET steps == call.steps
        n     == Len(steps)
    IN  /\ n >= 1 /\ n <= Len(ExpectedSteps)
        /\ \A k \in 1..n : steps[k].step = ExpectedSteps[k]
        /\ \A k \in 1..(n - 1) : steps[k].ok
        /\ call.ret = (n = Len(ExpectedSteps) /\ \A k \in 1..n : steps[k].ok)
        /\ ~steps[n].ok => ~call.ret

\* the first of two document indices fails: the second is never built
C12_Witness ==
  /\ FileReturned
  /\ Size(pdb.document_table) = 3
  /\ Len(call.steps) = Len(ExpectedSteps) - 1
  /\ call.steps[Len(call.steps)] = [step |-> "DocumentIndex", ok |-> FALSE]
  /\ \A k \in 1..(Len(call.steps) - 1) : call.steps[k].ok
  /\ document_indices_ = <<>>
  /\ ~call.ret

\* C13: after InitializeFromFile returns true, document_indices_ holds
\* exactly one DocumentIndex per row of the Document table, in row order, the
\* k-th one initialized from document row k.
C13_OneIndexPerDocument ==
  (FileReturned /\ call.ret) =>
    /\ Len(document_indices_) = Size(pdb.document_table) - 1
    /\ \A k \in 1..Len(document_indices_) :
         /\ document_indices_[k].doc_index = k
         /\ document_indices_[k].result
         /\ document_indices_[k].file_path_
              = pdb.names[At(pdb.document_table, k).name].path
         /\ \A m \in 1..Len(document_indices_[k].methods_) :
              At(pdb.method_debug_info_table,
                 document_indices_[k].methods_[m].method_def).document = k

\* two documents, each with a method of its own
C13_Witness ==
  /\ FileReturned /\ call.ret
  /\ Len(document_indices_) = 2
  /\ Len(document_indices_[1].methods_) = 1
  /\ Len(document_indices_[2].methods_) = 1
  /\ document_indices_[1].file_path_ # document_indices_[2].file_path_

(***************************************************************************)
(* The query specification: a file that InitializeFromFile has accepted,   *)
(* and any sequence of calls of its read accessors.                        *)
(***************************************************************************)
\* a GetStream that takes the header it finds out of stream_headers_
GetStreamCall_TakesHeader(name) ==
  /\ call.op # "crashed"
  /\ LET r == GetStream(heaps.stream_headers_, name)
     IN  /\ QueryReturns("GetStream", name,
                         Returns("returned", r.ok, stream,
                                 IF r.ok THEN <<r.header>> ELSE <<>>))
         /\ heaps' = [heaps EXCEPT !.stream_headers_ =
                        SelectSeq(@, LAMBDA h : h.name # name)]
  /\ UNCHANGED <<dbg, pdb, doc, file_content, tables, document_indices_, threads>>

\* GetStream as a caller uses it
GetStreamCall(name) ==
  /\ call.op # "crashed"
  /\ LET r == GetStream(heaps.stream_headers_, name)
     IN  QueryReturns("GetStream", name,
                      Returns("returned", r.ok, stream,
                              IF r.ok THEN <<r.header>> ELSE <<>>))
  /\ UNCHANGED <<dbg, pdb, doc, file_content, heaps, tables, document_indices_,
                 threads>>

\* the files are 16 bytes, then a region that can hold MaxGuids GUIDs
QueryFileLen == 16 + 16 * MaxGuids

\* the bytes at the start of the file, where the blob heap lies: a
\* component "b" and a name blob of one empty part; a name blob of one part
\* whose declared length reaches the last byte but one of the file; a name
\* blob "b/" + "b" behind its component
BlobRegions ==
  { <<0, 1, 98, 2, 47, 0>>,
    <<0, QueryFileLen - 3, 1, 4, 1, 9>>,
    <<0, 1, 98, 3, 47, 1, 1>> }

\* the region, the string "ab" and then bytes that tell their position
QueryFile(region) ==
  [i \in 1..QueryFileLen |->
     IF i <= Len(region) THEN region[i]
     ELSE IF i = Len(region) + 1 THEN 97
     ELSE IF i = Len(region) + 2 THEN 98
     ELSE IF i = Len(region) + 3 THEN 0
     ELSE i - 1]

\* the view of the tables a DocumentIndex is built from
QueryPdb ==
  [ document_table |-> DocumentTableOf(3),
    method_debug_info_table |-> MethodTableOf(<<1, 2>>),
    local_scope_table |-> FixedScopeTable,
    local_variable_table |-> LocalVariableTableOf(2),
    local_constant_table |-> LocalConstantTableOf(2),
    names |-> NamesOf("none"),
    blobs |-> BlobsOf("none", <<GoodBlob(<<>>), GoodBlob(<<>>)>>),
    strings |-> HeapStrings ]

\* a PortablePdbFile on which InitializeFromFile has succeeded
QueryObject ==
  /\ \E region \in BlobRegions, guid_offset \in {0, 16} :
       /\ file_content = QueryFile(region)
       /\ heaps = [ stream_headers_ |->
                      << [name |-> "#Strings", offset |-> Len(region),
                          size |-> 3],
                         [name |-> "#GUID", offset |-> guid_offset,
                          size |-> 16 * MaxGuids],
                         [name |-> "#Blob", offset |-> 0,
                          size |-> Len(region)] >>,
                    blob_offset |-> 0,
                    strings_offset |-> Len(region),
                    guid_offset |-> guid_offset ]
  /\ stream = [iterator_ |-> 0, end_ |-> QueryFileLen]
  /\ pdb = QueryPdb
  /\ doc = NewDocumentIndex
  /\ tables = [ state |-> "parsed",
                metadata_table_header_ |->
                  [ valid_mask |-> ValidMaskOf(QueryPdb, [step |-> "none"]),
                    num_rows |-> NumRowsOf(QueryPdb, [step |-> "none"]) ],
                rows_per_table |-> RowsPerTable(ValidMaskOf(QueryPdb, [step |-> "none"]),
                                                NumRowsOf(QueryPdb, [step |-> "none"])),
                parsed |-> <<>> ]
  /\ document_indices_ = DocumentIndexLoop(QueryPdb, 3, 1, <<>>).indices
  /\ call = [op |-> "none"]

InitQuery ==
  /\ QueryObject
  /\ threads = <<>>
  /\ dbg = NoDbgObject

\* index arguments, among them 0 and one past the heap
GuidIndices == { U32(i) : i \in 0..(MaxGuids + 1) }

NextQuery ==
  \/ \E name \in {"#GUID", "#US"} : GetStreamCall(name)
  \/ \E index \in 0..3 : GetHeapString(index)
  \/ \E index \in 0..MaxFile : GetDocumentName(index)
  \/ \E index \in GuidIndices : GetHeapGuid(index)
  \/ \E index \in 0..MaxFile : GetHash(index)
  \/ \E index \in 0..MaxFile, parse_ok \in BOOLEAN, consumed \in {0, 1} :
       GetMethodSeqInfo(index, parse_ok, consumed)

SpecQuery == InitQuery /\ [][NextQuery]_vars

(***************************************************************************)
(* Claims about the accessors of PortablePdbFile.                          *)
(***************************************************************************)
\* the returns of GetDocumentName that come after SetStreamLength succeeded
ExitsAfterSetLength ==
  { "separator", "part_index", "part_seek", "part_length", "part_bytes",
    "seek_back", "set_length_again", "success" }

\* C5: on every exit path of GetDocumentName after SetStreamLength succeeded
\* the stream-length boundary has been reset: no bounded length is active
\* when the call returns.
C5_LengthResetOnEveryExit ==
  (call.op = "GetDocumentName" /\ call.exit \in ExitsAfterSetLength)
  => stream.end_ = FileEnd(file_content)

\* the kinds that are none of the five PDB tables
OtherTables ==
  (0..(MaxValue - 1)) \ { PdbTables[k] : k \in 1..Len(PdbTables) }

\* C4: ParseCompressedMetadataTableStream returns false whenever a table
\* kind other than the five PDB tables has a nonzero row count, whatever the
\* valid mask and the row counts, also when the Document table has no rows.
C4_OtherTablesRejected ==
  ( /\ call.op = "ParseCompressedMetadataTableStream"
    /\ tables.rows_per_table # <<>>
    /\ \E t \in OtherTables : At(tables.rows_per_table, t) # 0 )
  => call.ret = FALSE

\* a call with index 0 of an accessor that takes a 1-based index
IndexZeroCall ==
  \/ call.op = "GetDocumentName" /\ call.index = 0
  \/ call.op = "GetHeapGuid" /\ call.index = U32(0)

\* C14: GetDocumentName(0) and GetHeapGuid(0) both return failure and hand
\* out no bytes of the file; GetHeapGuid(0) does not read at the offset that
\* (0 - 1) * 16 wraps around to.
C14_IndexZeroRejected ==
  IndexZeroCall => (~call.ret /\ call.out = <<>>)

\* the size of the GUID heap, from its stream header
GuidHeapSize == GetStream(heaps.stream_headers_, "#GUID").header.size

\* C15: for every index i >= 1 inside the GUID heap, GetHeapGuid(i) returns
\* exactly the 16 bytes at [guid_offset + 16 * (i - 1), guid_offset + 16 * i).
C15_GuidRange ==
  (/\ call.op = "GetHeapGuid"
   /\ call.index.hi = 0 /\ call.index.lo >= 1
   /\ 16 * call.index.lo <= GuidHeapSize)
  => /\ call.ret
     /\ call.out = SubSeq(file_content,
                          heaps.guid_offset + 16 * (call.index.lo - 1) + 1,
                          heaps.guid_offset + 16 * call.index.lo)

\* the blob at file position o is well formed: a one-byte length and that
\* many bytes inside the file
BlobIsAt(o) ==
  /\ o < Len(file_content)
  /\ file_content[o + 1] < 128
  /\ o + 1 + file_content[o + 1] <= Len(file_content)

BlobBytes(o) == SubSeq(file_content, o + 2, o + 1 + file_content[o + 1])

\* the document-name blob at blob heap offset index: a separator and at
\* least one part index, each part index one byte and either 0 or the offset
\* of a well-formed blob
NameBlobIsAt(index) ==
  /\ BlobIsAt(heaps.blob_offset + index)
  /\ LET c == BlobBytes(heaps.blob_offset + index)
     IN  /\ Len(c) >= 2
         /\ \A k \in 2..Len(c) :
              /\ c[k] < 128
              /\ c[k] # 0 => BlobIsAt(heaps.blob_offset + c[k])

\* the components of the parts c[k..], joined by the separator s
RECURSIVE JoinedParts(_, _, _)
JoinedParts(c, k, s) ==
  LET component == IF c[k] = 0 THEN <<>>
                   ELSE BlobBytes(heaps.blob_offset + c[k])
  IN  IF k = Len(c) THEN component
      ELSE component \o <<s>> \o JoinedParts(c, k + 1, s)

\* C16: for a document-name blob with separator s and parts p1..pn (n >= 1)
\* GetDocumentName returns the components in list order joined by s, without
\* a trailing separator; a part 0 is an empty component, a nonzero part the
\* length-prefixed bytes at that blob heap offset.
C16_NameIsJoinedParts ==
  (/\ call.op \in {"GetDocumentName", "crashed"}
   /\ call.index >= 1
   /\ NameBlobIsAt(call.index))
  => LET c == BlobBytes(heaps.blob_offset + call.index)
     IN  /\ call.op = "GetDocumentName"
         /\ call.ret
         /\ call.out = JoinedParts(c, 2, c[1])

\* the elements of a set of numbers in ascending order
RECURSIVE Ascending(_)
Ascending(S) ==
  IF S = {} THEN <<>>
  ELSE LET least == CHOOSE x \in S : \A y \in S : x <= y
       IN  <<least>> \o Ascending(S \ {least})

\* ParseCompressedMetadataTableStream got past the table header and built
\* rows_per_table
RowsWereBuilt ==
  /\ call.op = "ParseCompressedMetadataTableStream"
  /\ call.exit \in {"out_of_bounds", "other_table", "table_rows", "success"}

\* C17: for every valid mask and row-count list, rows_per_table has, for the
\* k-th set bit of the mask in ascending table-kind order, the k-th row count
\* of the header, and 0 for every table kind whose bit is clear.
C17_RowsPerTable ==
  RowsWereBuilt
  => LET header == tables.metadata_table_header_
         bits   == Ascending(header.valid_mask)
         rows   == tables.rows_per_table
     IN  /\ Size(rows) = MaxValue
         /\ \A k \in 1..Len(bits) : At(rows, bits[k]) = header.num_rows[k]
         /\ \A kind \in 0..(MaxValue - 1) :
              kind \notin header.valid_mask => At(rows, kind) = 0

\* a header with three set bits, clear bits between them, and three
\* different counts was mapped
C17_Witness ==
  /\ RowsWereBuilt
  /\ tables.metadata_table_header_ =
       [ valid_mask |-> {Document, MethodDebugInformation, 53},
         num_rows |-> <<1, 3, 65>> ]
  /\ At(tables.rows_per_table, 53) = 65
  /\ At(tables.rows_per_table, LocalScope) = 0

(***************************************************************************)
(* Two threads in the accessors of one PortablePdbFile.  The accessors are *)
(* const members that work on the one mutable pdb_file_binary_stream_;     *)
(* a thread takes one reader call (seek, read, set length, reset length)   *)
(* of its accessor per step, on the reader state the other thread left.    *)
(* A thread is its position pc in the accessor, the arguments and the      *)
(* locals of the call, and the value it returned.                          *)
(***************************************************************************)
NewThread ==
  [ pc |-> "idle", op |-> "none", index |-> 0, parse_ok |-> FALSE,
    consumed |-> 0, index_stream_length |-> 0, separator |-> 0,
    index_stream_pos |-> 0, part_index |-> 0, component_string_length |-> 0,
    result |-> <<>>, ret |-> FALSE, out |-> <<>> ]

\* the first reader call of each accessor
FirstStep(op) ==
  CASE op = "GetHeapGuid" -> "guid_seek"
    [] op = "GetHash" -> "hash_seek"
    [] op = "GetMethodSeqInfo" -> "seq_seek"
    [] op = "GetDocumentName" -> "name_seek"

ThreadReturns(th, ret, out) ==
  [th EXCEPT !.pc = "done", !.ret = ret, !.out = out]

At_(th, pc) == [th EXCEPT !.pc = pc]

Outcome(st, th) == [st |-> st, th |-> th]

\* GetHeapGuid, one reader call at a time
GetHeapGuidStep(f, st, guid_offset, th) ==
  IF th.pc = "guid_seek"
  THEN LET seek == SeekFromOrigin32(f, st, U32Add(U32(guid_offset),
                                                   GuidOffset(th.index)))
       IN  IF ~seek.ok THEN Outcome(seek.st, ThreadReturns(th, FALSE, <<>>))
           ELSE Outcome(seek.st, At_(th, "guid_read"))
  ELSE LET read == ReadBytes(f, st, 16)
       IN  IF ~read.ok THEN Outcome(read.st, ThreadReturns(th, FALSE, <<>>))
           ELSE Outcome(read.st, ThreadReturns(th, TRUE, read.bytes))

\* GetHash, one reader call at a time
GetHashStep(f, st, blob_offset, th) ==
  CASE th.pc = "hash_seek" ->
         LET seek == SeekFromOrigin(f, st, blob_offset + th.index)
         IN  IF ~seek.ok THEN Outcome(seek.st, ThreadReturns(th, FALSE, <<>>))
             ELSE Outcome(seek.st, At_(th, "hash_length"))
    [] th.pc = "hash_length" ->
         LET len == ReadCompressedUInt32(f, st)
         IN  IF ~len.ok THEN Outcome(len.st, ThreadReturns(th, FALSE, <<>>))
             ELSE Outcome(len.st, [th EXCEPT !.pc = "hash_read",
                                             !.index_stream_length = len.value])
    [] th.pc = "hash_read" ->
         LET read == ReadBytes(f, st, th.index_stream_length)
         IN  IF ~read.ok
             THEN Outcome(read.st,
                    ThreadReturns(th, FALSE,
                                  [k \in 1..th.index_stream_length |-> 0]))
             ELSE Outcome(read.st, ThreadReturns(th, TRUE, read.bytes))

\* GetMethodSeqInfo, one reader call at a time; ParseFrom is one read of
\* `consumed` bytes that fails when the stream does not hold them
GetMethodSeqInfoStep(f, st, blob_offset, th) ==
  CASE th.pc = "seq_seek" ->
         LET seek == SeekFromOrigin(f, st, blob_offset + th.index)
         IN  IF ~seek.ok THEN Outcome(seek.st, ThreadReturns(th, FALSE, <<>>))
             ELSE Outcome(seek.st, At_(th, "seq_length"))
    [] th.pc = "seq_length" ->
         LET len == ReadCompressedUInt32(f, st)
         IN  IF ~len.ok THEN Outcome(len.st, ThreadReturns(th, FALSE, <<>>))
             ELSE Outcome(len.st, [th EXCEPT !.pc = "seq_set_length",
                                             !.index_stream_length = len.value])
    [] th.pc = "seq_set_length" ->
         LET set == SetStreamLength(f, st, th.index_stream_length)
         IN  IF ~set.ok THEN Outcome(set.st, ThreadReturns(th, FALSE, <<>>))
             ELSE Outcome(set.st, At_(th, "seq_parse"))
    [] th.pc = "seq_parse" ->
         LET read == ReadBytes(f, st, Min(th.consumed, th.index_stream_length))
             result == th.parse_ok /\ read.ok
         IN  Outcome(read.st,
                     [th EXCEPT !.pc = "seq_reset", !.ret = result,
                                !.result = IF result THEN read.bytes ELSE <<>>])
    [] th.pc = "seq_reset" ->
         Outcome(ResetStreamLength(f, st), ThreadReturns(th, th.ret, th.result))

\* GetDocumentName, one reader call at a time
GetDocumentNameStep(f, st, blob_offset, th) ==
  CASE th.pc = "name_seek" ->
         IF th.index = 0 THEN Outcome(st, ThreadReturns(th, FALSE, <<>>))
         ELSE Outcome(SeekFromOrigin(f, st, blob_offset + th.index).st,
                      At_(th, "name_length"))
    [] th.pc = "name_length" ->
         LET len == ReadCompressedUInt32(f, st)
         IN  IF ~len.ok THEN Outcome(len.st, ThreadReturns(th, FALSE, <<>>))
             ELSE Outcome(len.st, [th EXCEPT !.pc = "name_set_length",
                                             !.index_stream_length = len.value])
    [] th.pc = "name_set_length" ->
         LET set == SetStreamLength(f, st, th.index_stream_length)
         IN  IF ~set.ok THEN Outcome(set.st, ThreadReturns(th, FALSE, <<>>))
             ELSE Outcome(set.st, At_(th, "name_separator"))
    [] th.pc = "name_separator" ->
         LET sep == ReadByte(f, st)
         IN  IF ~sep.ok THEN Outcome(sep.st, At_(th, "name_fail_reset"))
             ELSE Outcome(sep.st, [th EXCEPT !.pc = "name_has_next",
                                             !.separator = sep.value])
    [] th.pc = "name_has_next" ->
         Outcome(st, At_(th, IF HasNext(st) THEN "name_part_index"
                             ELSE "name_pop_back"))
    [] th.pc = "name_part_index" ->
         LET part == ReadCompressedUInt32(f, st)
         IN  IF ~part.ok THEN Outcome(part.st, At_(th, "name_fail_reset"))
             ELSE IF part.value = 0
               THEN Outcome(part.st,
                      [th EXCEPT !.pc = "name_has_next",
                                 !.part_index = 0,
                                 !.index_stream_pos = Current(part.st),
                                 !.result = Append(@, th.separator)])
             ELSE Outcome(part.st,
                    [th EXCEPT !.pc = "name_part_seek",
                               !.part_index = part.value,
                               !.index_stream_pos = Current(part.st)])
    [] th.pc = "name_part_seek" ->
         LET seek == SeekFromOrigin(f, st, blob_offset + th.part_index)
         IN  IF ~seek.ok THEN Outcome(seek.st, At_(th, "name_fail_reset"))
             ELSE Outcome(seek.st, At_(th, "name_part_length"))
    [] th.pc = "name_part_length" ->
         LET clen == ReadCompressedUInt32(f, st)
         IN  IF ~clen.ok THEN Outcome(clen.st, At_(th, "name_fail_reset"))
             ELSE Outcome(clen.st,
                    [th EXCEPT !.pc = "name_part_bytes",
                               !.component_string_length = clen.value])
    [] th.pc = "name_part_bytes" ->
         LET comp == ReadBytes(f, st, th.component_string_length)
         IN  IF ~comp.ok THEN Outcome(comp.st, At_(th, "name_fail_reset"))
             ELSE Outcome(comp.st, [th EXCEPT !.pc = "name_seek_back",
                                              !.result = @ \o comp.bytes])
    [] th.pc = "name_seek_back" ->
         LET back == SeekFromOrigin(f, st, th.index_stream_pos)
         IN  IF ~back.ok THEN Outcome(back.st, ThreadReturns(th, FALSE, <<>>))
             ELSE Outcome(back.st, At_(th, "name_set_length_again"))
    [] th.pc = "name_set_length_again" ->
         LET again == SetStreamLength(f, st, th.index_stream_length)
         IN  IF ~again.ok
             THEN Outcome(again.st, ThreadReturns(th, FALSE, <<>>))
             ELSE Outcome(again.st,
                    [th EXCEPT !.pc = "name_has_next",
                               !.result = Append(@, th.separator)])
    [] th.pc = "name_fail_reset" ->
         Outcome(FailReset(f, st), ThreadReturns(th, FALSE, <<>>))
    [] th.pc = "name_pop_back" ->
         Outcome(st, [th EXCEPT !.pc = "name_reset",
                                !.result = PopBack(@)])
    [] th.pc = "name_reset" ->
         Outcome(ResetStreamLength(f, st), ThreadReturns(th, TRUE, th.result))

\* the next reader call of thread th on the reader state st
ThreadStep(f, st, hp, th) ==
  CASE th.op = "GetHeapGuid" -> GetHeapGuidStep(f, st, hp.guid_offset, th)
    [] th.op = "GetHash" -> GetHashStep(f, st, hp.blob_offset, th)
    [] th.op = "GetMethodSeqInfo" ->
         GetMethodSeqInfoStep(f, st, hp.blob_offset, th)
    [] th.op = "GetDocumentName" ->
         GetDocumentNameStep(f, st, hp.blob_offset, th)

\* thread t enters an accessor
Enter(t, op, index, parse_ok, consumed) ==
  /\ threads[t].pc = "idle"
  /\ threads' = [threads EXCEPT ![t] =
                   [NewThread EXCEPT !.pc = FirstStep(op), !.op = op,
                                     !.index = index, !.parse_ok = parse_ok,
                                     !.consumed = consumed]]
  /\ UNCHANGED <<dbg, pdb, doc, file_content, stream, heaps, tables, call,
                 document_indices_>>

\* thread t makes its next reader call; pop_back() on an empty string may
\* also end the process
Advance(t) ==
  /\ threads[t].pc \notin {"idle", "done", "crashed"}
  /\ Len(threads[t].result) <= MaxName
  /\ \A u \in 1..Len(threads) : threads[u].pc # "crashed"
  /\ \/ LET r == ThreadStep(file_content, stream, heaps, threads[t])
        IN  /\ stream' = r.st
            /\ threads' = [threads EXCEPT ![t] = r.th]
     \/ /\ threads[t].pc = "name_pop_back"
        /\ "crashes" \in PopBackOutcomes(threads[t].result)
        /\ stream' = stream
        /\ threads' = [threads EXCEPT ![t] = [@ EXCEPT !.pc = "crashed"]]
  /\ UNCHANGED <<dbg, pdb, doc, file_content, heaps, tables, call,
                 document_indices_>>

InitThreads ==
  /\ QueryObject
  /\ threads = <<NewThread, NewThread>>
  /\ dbg = NoDbgObject

NextThreads ==
  \E t \in 1..2 :
    \/ \E index \in {U32(1), U32(2)} : Enter(t, "GetHeapGuid", index, FALSE, 0)
    \/ \E index \in {0, 3} : Enter(t, "GetHash", index, FALSE, 0)
    \/ \E index \in {0, 3}, parse_ok \in BOOLEAN :
         Enter(t, "GetMethodSeqInfo", index, parse_ok, 1)
    \/ \E index \in {0, 1, 3} : Enter(t, "GetDocumentName", index, FALSE, 0)
    \/ Advance(t)

SpecThreads == InitThreads /\ [][NextThreads]_vars

\* what the call of thread th returns when no other thread is in the file:
\* the accessor run from start to end on a reader no call has left bounded
AloneStream == [iterator_ |-> 0, end_ |-> FileEnd(file_content)]

AloneOutcomes(th) ==
  LET Ret(crashed, ret, out) == [crashed |-> crashed, ret |-> ret, out |-> out]
      Of(r) == { Ret(FALSE, r.ret, r.out) }
      name == DocumentNameParts(file_content, AloneStream, heaps.blob_offset,
                                th.index)
  IN  CASE th.op = "GetHeapGuid" ->
             Of(GetHeapGuidResult(file_content, AloneStream, heaps.guid_offset,
                                  th.index))
        [] th.op = "GetHash" ->
             Of(GetHashResult(file_content, AloneStream, heaps.blob_offset,
                              th.index))
        [] th.op = "GetMethodSeqInfo" ->
             Of(GetMethodSeqInfoResult(file_content, AloneStream,
                                       heaps.blob_offset, th.index,
                                       th.parse_ok, th.consumed))
        [] th.op = "GetDocumentName" ->
             IF name.exit # "loop_end" THEN { Ret(FALSE, FALSE, <<>>) }
             ELSE { IF outcome = "crashes" THEN Ret(TRUE, FALSE, <<>>)
                    ELSE Ret(FALSE, TRUE, PopBack(name.name)) :
                    outcome \in PopBackOutcomes(name.name) }

ThreadOutcome(th) ==
  [crashed |-> th.pc = "crashed", ret |-> th.ret, out |-> th.out]

\* C18: two threads that call read accessors of the same PortablePdbFile at
\* the same time each obtain exactly the result the call returns when run
\* alone, under every interleaving of their reader calls.
C18_ConcurrentReads ==
  \A t \in 1..Len(threads) :
    threads[t].pc \in {"done", "crashed"}
      => ThreadOutcome(threads[t]) \in AloneOutcomes(threads[t])

\* the same for a thread whose call ran while the other thread had made no
\* call: the steps of an accessor make up the accessor
SequentialReads ==
  \A t \in 1..Len(threads) :
    (/\ threads[t].pc \in {"done", "crashed"}
     /\ \A u \in 1..Len(threads) : u # t => threads[u].pc = "idle")
      => ThreadOutcome(threads[t]) \in AloneOutcomes(threads[t])

\* C19: after InitializeFromFile has succeeded, any sequence of query
\* operations (GetStream, GetHeapString, GetDocumentName, GetHeapGuid,
\* GetHash, GetMethodSeqInfo), whether they succeed or fail, leaves the
\* stream headers, the heap headers, the five decoded tables and the
\* document indices unchanged.
C19_QueriesKeepStructure ==
  [][ /\ heaps' = heaps
      /\ tables' = tables
      /\ pdb' = pdb
      /\ document_indices_' = document_indices_ ]_vars

\* a query has failed and left the reader bounded, a later one succeeded,
\* and the headers and document indices are there
C19_Witness ==
  /\ call.op = "GetStream"
  /\ call.ret
  /\ stream.end_ < FileEnd(file_content)
  /\ Len(heaps.stream_headers_) = 3
  /\ Len(document_indices_) = 2

(***************************************************************************)
(* Calls with an invalid document index: GetDocumentName on an accepted    *)
(* file whose reader earlier calls have moved and bounded, and             *)
(* DocumentIndex::Initialize on the same file.                             *)
(***************************************************************************)
NextInvalid ==
  \/ NextName
  \/ NextDoc

SpecInvalid == InitQuery /\ [][NextInvalid]_vars

\* the step is a call of GetDocumentName(0), or one that leaves its result
\* in place
NameOfIndexZero ==
  /\ call'.op = "GetDocumentName"
  /\ call'.index = 0

\* the step is a call of Initialize with doc_index 0 or out of range
InitializeOfBadIndex ==
  /\ doc.state = "new"
  /\ doc'.state = "initialized"
  /\ \/ doc'.doc_index <= 0
     \/ doc'.doc_index >= Size(pdb.document_table)

\* C20: an invalid document index is rejected before any stream state is
\* touched: GetDocumentName(0) returns false with the reader's position and
\* stream length unchanged, and DocumentIndex::Initialize with doc_index 0 or
\* out of range returns false without calling any reading accessor of the
\* PDB file.
C20_InvalidIndexTouchesNothing ==
  [][ /\ NameOfIndexZero => (~call'.ret /\ stream' = stream)
      /\ InitializeOfBadIndex
           => (~doc'.result /\ ~doc'.accessed /\ stream' = stream) ]_vars

\* GetDocumentName(0) was called on a reader that an earlier call had left
\* moved and bounded, and Initialize was called with an index past the
\* document table
C20_Witness ==
  /\ call.op = "GetDocumentName"
  /\ call.index = 0
  /\ stream.iterator_ > 0
  /\ stream.end_ < FileEnd(file_content)
  /\ doc.state = "initialized"
  /\ doc.doc_index = Size(pdb.document_table)
  /\ ~doc.result

(***************************************************************************)
(* Claims about the sequence points of a parsed method.                    *)
(***************************************************************************)
\* the sum of the il_delta of records 1..k as a uint32_t holds it
DeltaSum32(records, k) ==
  [hi |-> DeltaSum(records, k).hi % 65536, lo |-> DeltaSum(records, k).lo]

\* C21: for every successfully parsed method, sequence_points has exactly
\* one entry per decoded record, in record order, hidden records included
\* with is_hidden = true; hidden records still contribute their il_delta to
\* the accumulated il_offset of every later point.
C21_OnePointPerRecord ==
  Succeeded =>
    \A k \in 1..Len(doc.methods_) :
      LET m    == doc.methods_[k]
          recs == RecordsOfRow(m.method_def)
      IN  /\ Len(m.sequence_points) = Len(recs)
          /\ \A i \in 1..Len(recs) :
               LET sp == m.sequence_points[i]
               IN  /\ sp.is_hidden = IsHidden(recs[i])
                   /\ sp.start_line = recs[i].start_line
                   /\ sp.end_line = recs[i].end_line
                   /\ sp.start_col = recs[i].start_col
                   /\ sp.end_col = recs[i].end_col
                   /\ sp.il_offset = DeltaSum32(recs, i)

\* a method whose first record is hidden with il_delta 3 and whose second
\* record is a point with il_delta 3: the point is at il_offset 6
C21_Witness ==
  /\ Succeeded /\ Len(doc.methods_) = 1
  /\ LET recs == RecordsOfRow(doc.methods_[1].method_def)
         sps  == doc.methods_[1].sequence_points
     IN  /\ Len(recs) = 2 /\ Len(sps) = 2
         /\ IsHidden(recs[1]) /\ recs[1].il_delta = U32(3)
         /\ ~IsHidden(recs[2]) /\ recs[2].il_delta = U32(3)
         /\ sps[1].is_hidden /\ ~sps[2].is_hidden
         /\ sps[2].il_offset = U32(6)

(***************************************************************************)
(* Source-location resolution.  The stack-trace builder looks a frame up   *)
(* in the DocumentIndex that Initialize built: the method of the frame,    *)
(* then the sequence point with the greatest il_offset that is not above   *)
(* the frame's IL offset.  A frame is [is_il, method_def, il_offset], a    *)
(* location [path, line].                                                  *)
(***************************************************************************)
Unmapped == [path |-> "", line |-> U32(0)]

\* the positions of the sequence points at the greatest il_offset <= target
GreatestNotAbove(sequence_points, target) ==
  LET below == { i \in 1..Len(sequence_points) :
                   ~U32Less(target, sequence_points[i].il_offset) }
  IN  { i \in below :
          \A j \in below : ~U32Less(sequence_points[i].il_offset,
                                    sequence_points[j].il_offset) }

\* the location of the sequence point at position i of method m
LocationOf(d, method, i) ==
  IF method.sequence_points[i].is_hidden THEN Unmapped
  ELSE [path |-> d.file_path_, line |-> method.sequence_points[i].start_line]

\* the locations the lookup of a frame in DocumentIndex d can give
ResolveFrame(d, frame) ==
  LET matching == { k \in 1..Len(d.methods_) :
                      d.methods_[k].method_def = frame.method_def }
  IN  IF ~frame.is_il \/ matching = {} THEN {Unmapped}
      ELSE LET method == d.methods_[CHOOSE k \in matching :
                                      \A l \in matching : k <= l]
               found  == GreatestNotAbove(method.sequence_points,
                                          frame.il_offset)
           IN  IF found = {} THEN {Unmapped}
               ELSE { LocationOf(d, method, i) : i \in found }

PopulateStackFrame(frame) ==
  /\ doc.state = "initialized"
  /\ doc.result
  /\ \E location \in ResolveFrame(doc, frame) :
       call' = [op |-> "PopulateStackFrame", frame |-> frame,
                location |-> location]
  /\ UNCHANGED <<dbg, pdb, doc, file_content, stream, heaps, tables,
                 document_indices_, threads>>

\* records of two lines, hidden or not, with il_delta 0 or 3
ResolveRecordSet ==
  { Point(d, l[1], l[2], k) :
      d \in {U32(0), U32(3)}, l \in {<<5, 5>>, <<7, 9>>},
      k \in {"point", "hidden"} }

\* one document with one method; its sequence-point records vary
InitResolve ==
  /\ \E records \in SeqsUpTo(ResolveRecordSet, MaxRecords) :
       pdb = [ document_table |-> DocumentTableOf(2),
               method_debug_info_table |-> MethodTableOf(<<1>>),
               local_scope_table |-> FixedScopeTable,
               local_variable_table |-> LocalVariableTableOf(2),
               local_constant_table |-> LocalConstantTableOf(2),
               names |-> NamesOf("none"),
               blobs |-> BlobsOf("none", <<GoodBlob(records)>>),
               strings |-> HeapStrings ]
  /\ doc = NewDocumentIndex
  /\ IdleFile

\* frames of the method, of a method the document does not hold, and frames
\* that are not IL frames
FrameSet ==
  [ is_il : BOOLEAN, method_def : {1, 2},
    il_offset : {U32(0), U32(2), U32(3), U32(7)} ]

NextResolve ==
  \/ NextDoc
  \/ \E frame \in FrameSet : PopulateStackFrame(frame)

SpecResolve == InitResolve /\ [][NextResolve]_vars

Resolved == call.op = "PopulateStackFrame"

\* the records of the frame's method at the greatest sum of deltas that is
\* not above the frame's IL offset
RecordsNotAbove(recs, target) ==
  LET below == { i \in 1..Len(recs) : ~U32Less(target, DeltaSum32(recs, i)) }
  IN  { i \in below :
          \A j \in below : ~U32Less(DeltaSum32(recs, i), DeltaSum32(recs, j)) }

\* C22: resolution for (method, target IL offset) selects the sequence point
\* with the greatest il_offset <= target; if that point is hidden the frame
\* is unmapped (empty path, line 0) with no fallback to an earlier point,
\* otherwise the frame's line is that point's start_line and its path the
\* owning document's file path; frames that are not IL frames or have no
\* matching method get no path and line 0.
C22_ResolvesGreatestNotAbove ==
  Resolved =>
    LET frame == call.frame
        known == frame.method_def \in MethodRowsOf(doc.doc_index)
        recs  == RecordsOfRow(frame.method_def)
        sel   == RecordsNotAbove(recs, frame.il_offset)
    IN  IF ~frame.is_il \/ ~known THEN call.location = Unmapped
        ELSE sel # {} =>
               \E i \in sel :
                 IF IsHidden(recs[i]) THEN call.location = Unmapped
                 ELSE call.location =
                        [ path |-> pdb.names[At(pdb.document_table,
                                                doc.doc_index).name].path,
                          line |-> recs[i].start_line ]

\* a frame at IL offset 7 of a method whose points are at 0 (line 5), 3
\* (hidden) : the hidden point is selected and the frame is unmapped
C22_Witness ==
  /\ Resolved
  /\ call.frame = [is_il |-> TRUE, method_def |-> 1, il_offset |-> U32(7)]
  /\ LET recs == RecordsOfRow(1)
     IN  /\ Len(recs) = 2
         /\ ~IsHidden(recs[1]) /\ recs[1].il_delta = U32(0)
         /\ IsHidden(recs[2]) /\ recs[2].il_delta = U32(3)
  /\ call.location = Unmapped


\* ---------------------------------------------------------------------------
\* Debugger value objects: dbgobject.cc and dbg_class_field.cc
\* ---------------------------------------------------------------------------

\* longest run of working references in front of the last value of a chain
MaxChain == 4

\* the limit on the number of dereferences of one Dereference call
kReferenceDepth == 3

\* FAILED(hr): every HRESULT but the success codes
FAILED(hr) == hr \notin {"S_OK", "S_FALSE"}

\* what the value at the end of a chain of references is: a value that is no
\* reference, a null reference, a reference back to the first value of the
\* chain, or a value on which a call of the debugging interface fails
LastKinds ==
  {"value", "null", "cycle", "qi_fails", "isnull_fails", "deref_fails"}

\* the ICorDebugValue objects that can be handed to Dereference: refs working
\* non-null references, one behind the other, in front of the last value
ReferenceChains == [refs : 0..MaxChain, last : LastKinds]

\* QueryInterface(ICorDebugReferenceValue) on the value at a position
QueryReference(chain, position) ==
  IF position < chain.refs THEN "S_OK"
  ELSE CASE chain.last = "value" -> "E_NOINTERFACE"
         [] chain.last = "qi_fails" -> "E_FAIL"
         [] OTHER -> "S_OK"

\* ICorDebugReferenceValue::IsNull on the reference at a position
IsNullCall(chain, position) ==
  IF position < chain.refs THEN [hr |-> "S_OK", is_null |-> FALSE]
  ELSE CASE chain.last = "isnull_fails" -> [hr |-> "E_FAIL", is_null |-> FALSE]
         [] chain.last = "null" -> [hr |-> "S_OK", is_null |-> TRUE]
         [] OTHER -> [hr |-> "S_OK", is_null |-> FALSE]

\* ICorDebugReferenceValue::Dereference on the reference at a position
DereferenceCall(chain, position) ==
  IF position < chain.refs
  THEN [hr |-> "S_OK", value |-> position + 1]
  ELSE IF chain.last = "cycle"
       THEN [hr |-> "S_OK", value |-> 0]
       ELSE [hr |-> "E_FAIL", value |-> position]

\* the while loop of Dereference, from temp_value at reference_depth: how the
\* loop is left ("returned" with a failure, "left" by break or condition)
RECURSIVE DereferenceLoop(_, _, _)
DereferenceLoop(chain, temp_value, reference_depth) ==
  IF ~(reference_depth < kReferenceDepth)
  THEN [exit |-> "left", hr |-> "S_OK", local_is_null |-> FALSE,
        temp_value |-> temp_value, reference_depth |-> reference_depth]
  ELSE IF QueryReference(chain, temp_value) = "E_NOINTERFACE"
  THEN [exit |-> "left", hr |-> "E_NOINTERFACE", local_is_null |-> FALSE,
        temp_value |-> temp_value, reference_depth |-> reference_depth]
  ELSE IF FAILED(QueryReference(chain, temp_value))
  THEN [exit |-> "returned", hr |-> QueryReference(chain, temp_value),
        local_is_null |-> FALSE,
        temp_value |-> temp_value, reference_depth |-> reference_depth]
  ELSE IF FAILED(IsNullCall(chain, temp_value).hr)
  THEN [exit |-> "returned", hr |-> IsNullCall(chain, temp_value).hr,
        local_is_null |-> FALSE,
        temp_value |-> temp_value, reference_depth |-> reference_depth]
  ELSE IF IsNullCall(chain, temp_value).is_null
  THEN [exit |-> "left", hr |-> "S_OK", local_is_null |-> TRUE,
        temp_value |-> temp_value, reference_depth |-> reference_depth]
  ELSE IF FAILED(DereferenceCall(chain, temp_value).hr)
  THEN [exit |-> "returned", hr |-> DereferenceCall(chain, temp_value).hr,
        local_is_null |-> FALSE,
        temp_value |-> temp_value, reference_depth |-> reference_depth]
  ELSE DereferenceLoop(chain, DereferenceCall(chain, temp_value).value,
                       reference_depth + 1)

\* what Dereference does once its loop l is over
DereferenceReturns(l) ==
  IF l.exit = "returned"
  THEN [hr |-> l.hr, is_null |-> "unset", dereferenced_value |-> -1,
        reference_depth |-> l.reference_depth]
  ELSE IF l.reference_depth = kReferenceDepth
  THEN [hr |-> "E_FAIL",
        is_null |-> IF l.hr = "E_NOINTERFACE" THEN "FALSE" ELSE "unset",
        dereferenced_value |-> -1,
        reference_depth |-> l.reference_depth]
  ELSE [hr |-> "S_OK", is_null |-> IF l.local_is_null THEN "TRUE" ELSE "FALSE",
        dereferenced_value |-> l.temp_value,
        reference_depth |-> l.reference_depth]

\* Dereference(debug_value, dereferenced_value, is_null): debug_value is the
\* first value of the chain; has_out says dereferenced_value is not nullptr
Dereference(chain, has_out) ==
  IF ~has_out
  THEN [hr |-> "E_INVALIDARG", is_null |-> "unset",
        dereferenced_value |-> -1, reference_depth |-> 0]
  ELSE DereferenceReturns(DereferenceLoop(chain, 0, 0))


\* the element types handed to CreateDbgObjectHelper; "PTR" stands for the
\* types its switch has no case for
ElementTypes == {"BOOLEAN", "STRING", "SZARRAY", "CLASS", "PTR"}

\* the class the switch of CreateDbgObjectHelper constructs for a type
ClassOfType(cor_element_type) ==
  CASE cor_element_type = "BOOLEAN" -> "DbgPrimitive"
    [] cor_element_type = "STRING" -> "DbgString"
    [] cor_element_type = "SZARRAY" -> "DbgArray"
    [] cor_element_type = "CLASS" -> "DbgClass"
    [] OTHER -> "none"

\* an empty std::unique_ptr<DbgObject>
NullObject == [class |-> "none", initialize_hr |-> "none"]

\* the HRESULTs a call into the debuggee or the metadata returns here
DebuggeeHrs == {"S_OK", "E_FAIL"}

\* CreateDbgObjectHelper with the new object moved into *result_object in
\* front of the call of Initialize, and reset there when Initialize fails
CreateDbgObjectHelper_AssignsFirst(has_result, result_object, cor_element_type, allocated, initialize_hr) ==
  IF ~has_result
  THEN [hr |-> "E_INVALIDARG", result_object |-> result_object]
  ELSE IF ClassOfType(cor_element_type) = "none"
  THEN [hr |-> "E_NOTIMPL", result_object |-> result_object]
  ELSE IF allocated
  THEN IF FAILED(initialize_hr)
       THEN [hr |-> initialize_hr, result_object |-> NullObject]
       ELSE [hr |-> "S_OK",
             result_object |-> [class |-> ClassOfType(cor_element_type),
                                initialize_hr |-> initialize_hr]]
  ELSE [hr |-> "E_OUTOFMEMORY", result_object |-> result_object]

\* CreateDbgObjectHelper: has_result says result_object is not nullptr,
\* result_object is what the caller's pointer holds, allocated says operator
\* new returned an object, initialize_hr is what Initialize of it returns.
\* Returns the HRESULT and what the caller's pointer holds afterwards.
CreateDbgObjectHelper(has_result, result_object, cor_element_type, allocated, initialize_hr) ==
  IF ~has_result
  THEN [hr |-> "E_INVALIDARG", result_object |-> result_object]
  ELSE IF ClassOfType(cor_element_type) = "none"
  THEN [hr |-> "E_NOTIMPL", result_object |-> result_object]
  ELSE IF allocated
  THEN IF FAILED(initialize_hr)
       THEN [hr |-> initialize_hr, result_object |-> result_object]
       ELSE [hr |-> "S_OK",
             result_object |-> [class |-> ClassOfType(cor_element_type),
                                initialize_hr |-> initialize_hr]]
  ELSE [hr |-> "E_OUTOFMEMORY", result_object |-> result_object]

\* CreateDbgObject(debug_value, depth, result_object): type_hr is the result
\* of DereferenceAndUnbox and of the calls that get the element type
CreateDbgObject(type_hr, result_object, cor_element_type, allocated, initialize_hr) ==
  IF FAILED(type_hr)
  THEN [hr |-> type_hr, result_object |-> result_object]
  ELSE CreateDbgObjectHelper(TRUE, result_object, cor_element_type, allocated,
                             initialize_hr)

\* a DbgClassField after construction, before Initialize
NewDbgClassField ==
  [initialized_hr_ |-> "none", is_static |-> FALSE, field_value_ |-> NullObject]

\* DbgClassField::Initialize: has_import says metadata_import is not nullptr,
\* first_hr and second_hr are what the two GetFieldProps calls return,
\* is_static is the static bit of the attributes they deliver
FieldInitialize(field, has_import, first_hr, second_hr, is_static) ==
  IF ~has_import
  THEN [field EXCEPT !.initialized_hr_ = "E_INVALIDARG"]
  ELSE IF FAILED(first_hr)
  THEN [field EXCEPT !.initialized_hr_ = first_hr]
  ELSE [field EXCEPT !.initialized_hr_ = second_hr, !.is_static = is_static]

\* DbgClassField::ExtractStaticFieldValue: debuggee_hr is the result of the
\* calls up to GetStaticFieldValue, created that of CreateDbgObject
ExtractStaticFieldValue(debuggee_hr, created) ==
  IF FAILED(debuggee_hr)
  THEN [hr |-> debuggee_hr, field_value_ |-> NullObject]
  ELSE IF FAILED(created.hr)
  THEN [hr |-> created.hr, field_value_ |-> NullObject]
  ELSE [hr |-> created.hr, field_value_ |-> created.result_object]

\* DbgClassField::ExtractNonStaticFieldValue: debuggee_hr is the result of
\* the calls up to GetFieldValue, created that of CreateDbgObject
ExtractNonStaticFieldValue(debuggee_hr, created) ==
  IF FAILED(debuggee_hr)
  THEN [hr |-> debuggee_hr, field_value_ |-> NullObject]
  ELSE [hr |-> created.hr, field_value_ |-> created.result_object]

\* the block of PopulateVariableValue that runs when no field value is
\* cached: returned says the function returns from inside the block
ObtainFieldValue(field, dereferenced, debuggee_hr, created) ==
  IF FAILED(dereferenced.hr)
  THEN [returned |-> TRUE, hr |-> dereferenced.hr,
        field_value_ |-> field.field_value_,
        errors |-> <<"Failed to dereference class value.">>]
  ELSE IF field.is_static
  THEN IF FAILED(ExtractStaticFieldValue(debuggee_hr, created).hr)
       THEN [returned |-> TRUE,
             hr |-> ExtractStaticFieldValue(debuggee_hr, created).hr,
             field_value_ |->
               ExtractStaticFieldValue(debuggee_hr, created).field_value_,
             errors |-> <<"Failed to extract static field value.">>]
       ELSE [returned |-> FALSE,
             hr |-> ExtractStaticFieldValue(debuggee_hr, created).hr,
             field_value_ |->
               ExtractStaticFieldValue(debuggee_hr, created).field_value_,
             errors |-> <<>>]
  ELSE IF dereferenced.is_null = "TRUE"
  THEN [returned |-> TRUE, hr |-> dereferenced.hr,
        field_value_ |-> field.field_value_,
        errors |-> <<"Cannot get non-static field value since class object is null.">>]
  ELSE IF FAILED(ExtractNonStaticFieldValue(debuggee_hr, created).hr)
       THEN [returned |-> TRUE,
             hr |-> ExtractNonStaticFieldValue(debuggee_hr, created).hr,
             field_value_ |->
               ExtractNonStaticFieldValue(debuggee_hr, created).field_value_,
             errors |-> <<"Failed to extract non-static field value.">>]
       ELSE [returned |-> FALSE,
             hr |-> ExtractNonStaticFieldValue(debuggee_hr, created).hr,
             field_value_ |->
               ExtractNonStaticFieldValue(debuggee_hr, created).field_value_,
             errors |-> <<>>]

\* the end of PopulateVariableValue, with the field value obtained or cached
PopulateFieldValue(field_value_, populate_hr) ==
  IF field_value_ = NullObject
  THEN [hr |-> "E_FAIL", field_value_ |-> field_value_,
        errors |-> <<"Cannot get field value.">>, touched |-> TRUE]
  ELSE [hr |-> populate_hr, field_value_ |-> field_value_,
        errors |-> IF FAILED(populate_hr) THEN <<"field value">> ELSE <<>>,
        touched |-> TRUE]

\* PopulateVariableValue with the pointer arguments validated in front of the
\* check of initialized_hr_
PopulateVariableValue_ArgumentsFirst(field, variable, eval_coordinator, obtained, populate_hr) ==
  IF ~variable \/ ~eval_coordinator
  THEN [hr |-> "E_INVALIDARG", field_value_ |-> field.field_value_,
        errors |-> <<>>, touched |-> FALSE]
  ELSE IF FAILED(field.initialized_hr_)
  THEN [hr |-> field.initialized_hr_, field_value_ |-> field.field_value_,
        errors |-> <<>>, touched |-> FALSE]
  ELSE IF field.field_value_ = NullObject
  THEN IF obtained.returned
       THEN [hr |-> obtained.hr, field_value_ |-> obtained.field_value_,
             errors |-> obtained.errors, touched |-> TRUE]
       ELSE PopulateFieldValue(obtained.field_value_, populate_hr)
  ELSE PopulateFieldValue(field.field_value_, populate_hr)

\* DbgClassField::PopulateVariableValue: variable and eval_coordinator say
\* the pointers are not nullptr, obtained is the outcome of ObtainFieldValue,
\* populate_hr what PopulateVariableValue of the field value returns.
\* touched says a call into the debuggee was made.
PopulateVariableValue(field, variable, eval_coordinator, obtained, populate_hr) ==
  IF FAILED(field.initialized_hr_)
  THEN [hr |-> field.initialized_hr_, field_value_ |-> field.field_value_,
        errors |-> <<>>, touched |-> FALSE]
  ELSE IF ~variable \/ ~eval_coordinator
  THEN [hr |-> "E_INVALIDARG", field_value_ |-> field.field_value_,
        errors |-> <<>>, touched |-> FALSE]
  ELSE IF field.field_value_ = NullObject
  THEN IF obtained.returned
       THEN [hr |-> obtained.hr, field_value_ |-> obtained.field_value_,
             errors |-> obtained.errors, touched |-> TRUE]
       ELSE PopulateFieldValue(obtained.field_value_, populate_hr)
  ELSE PopulateFieldValue(field.field_value_, populate_hr)


\* a DbgArray after construction: has_type says the ICorDebugType handed to
\* the constructor is not nullptr
NewDbgArray == [has_type |-> FALSE, initialize_hr_ |-> "none"]

\* DbgArray::Initialize: E_INVALIDARG without a type, else what the calls
\* that read the array's rank and dimensions return
ArrayInitialize(array, has_type, debuggee_hr) ==
  [has_type |-> has_type,
   initialize_hr_ |-> IF ~has_type THEN "E_INVALIDARG" ELSE debuggee_hr]

\* DbgArray::PopulateType(variable)
PopulateType(array, variable) ==
  IF FAILED(array.initialize_hr_)
  THEN [hr |-> array.initialize_hr_, touched |-> FALSE]
  ELSE IF ~variable
  THEN [hr |-> "E_INVALIDARG", touched |-> FALSE]
  ELSE [hr |-> "S_OK", touched |-> FALSE]

\* DbgArray::PopulateMembers(variable, members, eval_coordinator):
\* members_hr is what reading the elements from the debuggee returns
PopulateMembers(array, variable, eval_coordinator, members_hr) ==
  IF FAILED(array.initialize_hr_)
  THEN [hr |-> array.initialize_hr_, touched |-> FALSE]
  ELSE IF ~variable \/ ~eval_coordinator
  THEN [hr |-> "E_INVALIDARG", touched |-> FALSE]
  ELSE [hr |-> members_hr, touched |-> TRUE]

\* a call of Dereference on the reference value
CallDereference(has_out) ==
  /\ dbg.kind = "objects"
  /\ dbg' = [dbg EXCEPT !.last =
               [op |-> "Dereference", has_out |-> has_out,
                result |-> Dereference(dbg.reference_value, has_out)]]
  /\ UNCHANGED <<pdb, doc, file_content, stream, heaps, tables, call,
                 document_indices_, threads>>

\* what a call of CreateDbgObjectHelper with outcome r leaves behind
HelperCallReturns(has_result, cor_element_type, allocated, initialize_hr, r) ==
  dbg' = [dbg EXCEPT !.result_object = r.result_object,
                     !.last = [op |-> "CreateDbgObjectHelper",
                               has_result |-> has_result,
                               before |-> dbg.result_object,
                               cor_element_type |-> cor_element_type,
                               allocated |-> allocated,
                               initialize_hr |-> initialize_hr,
                               hr |-> r.hr]]

\* a call of CreateDbgObjectHelper with the caller's result_object
CallCreateDbgObjectHelper(has_result, cor_element_type, allocated, initialize_hr) ==
  /\ dbg.kind = "objects"
  /\ HelperCallReturns(has_result, cor_element_type, allocated, initialize_hr,
       CreateDbgObjectHelper(has_result, dbg.result_object, cor_element_type,
                             allocated, initialize_hr))
  /\ UNCHANGED <<pdb, doc, file_content, stream, heaps, tables, call,
                 document_indices_, threads>>

\* the call of Initialize on the DbgClassField
CallFieldInitialize(has_import, first_hr, second_hr, is_static) ==
  /\ dbg.kind = "fields"
  /\ dbg.field.initialized_hr_ = "none"
  /\ dbg' = [dbg EXCEPT
               !.field = FieldInitialize(dbg.field, has_import, first_hr,
                                         second_hr, is_static),
               !.last = [op |-> "DbgClassField::Initialize"]]
  /\ UNCHANGED <<pdb, doc, file_content, stream, heaps, tables, call,
                 document_indices_, threads>>

\* what a call of PopulateVariableValue with outcome r leaves behind
FieldCallReturns(variable, eval_coordinator, r) ==
  dbg' = [dbg EXCEPT !.field.field_value_ = r.field_value_,
                     !.last = [op |-> "PopulateVariableValue",
                               variable |-> variable,
                               eval_coordinator |-> eval_coordinator,
                               cached |-> dbg.field.field_value_ # NullObject,
                               hr |-> r.hr, errors |-> r.errors,
                               touched |-> r.touched]]

\* a call of PopulateVariableValue on the initialized DbgClassField, with the
\* reference value as the class object
CallPopulateVariableValue(variable, eval_coordinator, debuggee_hr, created, populate_hr) ==
  /\ dbg.kind = "fields"
  /\ dbg.field.initialized_hr_ # "none"
  /\ FieldCallReturns(variable, eval_coordinator,
       PopulateVariableValue(dbg.field, variable, eval_coordinator,
         ObtainFieldValue(dbg.field, Dereference(dbg.reference_value, TRUE),
                          debuggee_hr, created),
         populate_hr))
  /\ UNCHANGED <<pdb, doc, file_content, stream, heaps, tables, call,
                 document_indices_, threads>>

\* the call of Initialize on the DbgArray
CallArrayInitialize(has_type, debuggee_hr) ==
  /\ dbg.kind = "fields"
  /\ dbg.array.initialize_hr_ = "none"
  /\ dbg' = [dbg EXCEPT
               !.array = ArrayInitialize(dbg.array, has_type, debuggee_hr),
               !.last = [op |-> "DbgArray::Initialize"]]
  /\ UNCHANGED <<pdb, doc, file_content, stream, heaps, tables, call,
                 document_indices_, threads>>

\* a call of PopulateType on the initialized DbgArray
CallPopulateType(variable) ==
  /\ dbg.kind = "fields"
  /\ dbg.array.initialize_hr_ # "none"
  /\ dbg' = [dbg EXCEPT !.last =
               [op |-> "PopulateType", variable |-> variable,
                eval_coordinator |-> TRUE,
                hr |-> PopulateType(dbg.array, variable).hr,
                touched |-> PopulateType(dbg.array, variable).touched]]
  /\ UNCHANGED <<pdb, doc, file_content, stream, heaps, tables, call,
                 document_indices_, threads>>

\* a call of PopulateMembers on the initialized DbgArray
CallPopulateMembers(variable, eval_coordinator, members_hr) ==
  /\ dbg.kind = "fields"
  /\ dbg.array.initialize_hr_ # "none"
  /\ dbg' = [dbg EXCEPT !.last =
               [op |-> "PopulateMembers", variable |-> variable,
                eval_coordinator |-> eval_coordinator,
                hr |-> PopulateMembers(dbg.array, variable, eval_coordinator,
                                       members_hr).hr,
                touched |-> PopulateMembers(dbg.array, variable,
                                            eval_coordinator,
                                            members_hr).touched]]
  /\ UNCHANGED <<pdb, doc, file_content, stream, heaps, tables, call,
                 document_indices_, threads>>

\* the outcomes of the CreateDbgObject call that an Extract function makes
\* with the empty field_value_
CreatedObjects ==
  { CreateDbgObject(type_hr, NullObject, cor_element_type, allocated,
                    initialize_hr) :
      type_hr \in DebuggeeHrs, cor_element_type \in ElementTypes,
      allocated \in BOOLEAN, initialize_hr \in DebuggeeHrs }

\* everything but the debugger value objects, which the actions on them
\* leave alone
NoPdbFile ==
  /\ pdb = [document_table |-> <<>>]
  /\ doc = NewDocumentIndex
  /\ file_content = <<>>
  /\ stream = [iterator_ |-> 0, end_ |-> 0]
  /\ heaps = [blob_offset |-> 0, stream_headers_ |-> <<>>]
  /\ tables = NewTables
  /\ call = [op |-> "none"]
  /\ document_indices_ = <<>>
  /\ threads = <<>>

\* a caller of the functions of dbgobject.cc in front of its first call: one
\* reference value of the debuggee and the caller's empty result_object
InitObject ==
  /\ NoPdbFile
  /\ \E chain \in ReferenceChains :
       dbg = [kind |-> "objects", reference_value |-> chain,
              result_object |-> NullObject, last |-> [op |-> "none"]]

NextObject ==
  \/ \E has_out \in BOOLEAN : CallDereference(has_out)
  \/ \E has_result, allocated \in BOOLEAN, cor_element_type \in ElementTypes,
        initialize_hr \in DebuggeeHrs :
       CallCreateDbgObjectHelper(has_result, cor_element_type, allocated,
                                 initialize_hr)

SpecObject == InitObject /\ [][NextObject]_vars

\* a class object of the debuggee (a reference value), with a DbgClassField
\* and a DbgArray constructed and not yet initialized
InitField ==
  /\ NoPdbFile
  /\ \E chain \in ReferenceChains :
       dbg = [kind |-> "fields", reference_value |-> chain,
              field |-> NewDbgClassField, array |-> NewDbgArray,
              last |-> [op |-> "none"]]

NextField ==
  \/ \E has_import, is_static \in BOOLEAN, first_hr, second_hr \in DebuggeeHrs :
       CallFieldInitialize(has_import, first_hr, second_hr, is_static)
  \/ \E variable, eval_coordinator \in BOOLEAN,
        debuggee_hr, populate_hr \in DebuggeeHrs, created \in CreatedObjects :
       CallPopulateVariableValue(variable, eval_coordinator, debuggee_hr,
                                 created, populate_hr)
  \/ \E has_type \in BOOLEAN, debuggee_hr \in DebuggeeHrs :
       CallArrayInitialize(has_type, debuggee_hr)
  \/ \E variable \in BOOLEAN : CallPopulateType(variable)
  \/ \E variable, eval_coordinator \in BOOLEAN, members_hr \in DebuggeeHrs :
       CallPopulateMembers(variable, eval_coordinator, members_hr)

SpecField == InitField /\ [][NextField]_vars


\* the operations that populate a variable from a debugger value object
PopulateOps == {"PopulateVariableValue", "PopulateType", "PopulateMembers"}

\* the HRESULT that Initialize stored in the object the last call was made on
StoredHr ==
  IF dbg.last.op = "PopulateVariableValue"
  THEN dbg.field.initialized_hr_
  ELSE dbg.array.initialize_hr_

C30_NoFieldValueIsFailure ==
  (/\ dbg.kind = "fields"
   /\ dbg.last.op = "PopulateVariableValue"
   /\ dbg.field.field_value_ = NullObject)
  => FAILED(dbg.last.hr)


\* C28: Dereference makes at most kReferenceDepth dereferences, also on a
\* cycle of references; when the first value that is no reference, or the
\* first null reference, lies at most kReferenceDepth dereferences away it
\* returns S_OK with that value and is_null FALSE, or TRUE for the null
\* reference; and where no call of the debugging interface fails it returns
\* E_FAIL only if more than kReferenceDepth dereferences would be needed.
C28_DereferenceWithinDepth ==
  (dbg.kind = "objects" /\ dbg.last.op = "Dereference" /\ dbg.last.has_out)
  => /\ dbg.last.result.reference_depth <= kReferenceDepth
     /\ ( /\ dbg.reference_value.last \in {"value", "null"}
          /\ dbg.reference_value.refs <= kReferenceDepth )
        => /\ dbg.last.result.hr = "S_OK"
           /\ dbg.last.result.dereferenced_value = dbg.reference_value.refs
           /\ dbg.last.result.is_null =
                (IF dbg.reference_value.last = "null" THEN "TRUE" ELSE "FALSE")
     /\ ( /\ dbg.last.result.hr = "E_FAIL"
          /\ dbg.reference_value.last \in {"value", "null", "cycle"} )
        => \/ dbg.reference_value.last = "cycle"
           \/ dbg.reference_value.refs > kReferenceDepth


\* the HRESULT the claim names for the arguments of the last
\* CreateDbgObjectHelper call
HelperHrOfClaim ==
  IF ~dbg.last.has_result THEN "E_INVALIDARG"
  ELSE IF dbg.last.cor_element_type = "PTR" THEN "E_NOTIMPL"
  ELSE IF ~dbg.last.allocated THEN "E_OUTOFMEMORY"
  ELSE IF FAILED(dbg.last.initialize_hr) THEN dbg.last.initialize_hr
  ELSE "S_OK"

\* C29: CreateDbgObjectHelper returns E_INVALIDARG for a null result_object,
\* E_NOTIMPL for an unsupported element type, E_OUTOFMEMORY when the
\* allocation fails and the HRESULT of a failed Initialize; on each of them
\* the caller's *result_object is what it was before the call, and with S_OK
\* it is a non-null object whose Initialize succeeded.
C29_ResultOnlyOnSuccess ==
  (dbg.kind = "objects" /\ dbg.last.op = "CreateDbgObjectHelper")
  => /\ dbg.last.hr = HelperHrOfClaim
     /\ dbg.last.hr # "S_OK" => dbg.result_object = dbg.last.before
     /\ dbg.last.hr = "S_OK"
        => /\ dbg.result_object # NullObject
           /\ dbg.result_object.class # "none"
           /\ ~FAILED(dbg.result_object.initialize_hr)

\* a call whose Initialize failed, made with a result_object that held the
\* object of an earlier successful call: it still holds that object
C29_Witness ==
  /\ dbg.kind = "objects"
  /\ dbg.last.op = "CreateDbgObjectHelper"
  /\ dbg.last.has_result /\ dbg.last.allocated
  /\ dbg.last.cor_element_type = "STRING"
  /\ dbg.last.hr = "E_FAIL"
  /\ dbg.last.before.class = "DbgClass"
  /\ dbg.result_object.class = "DbgClass"


\* C26: the loop of ParseCompressedMetadataTableStream that looks for rows of
\* other tables reads rows_per_table only below MetadataTable::MaxValue,
\* whatever the row count of the Document table: the call never leaves by a
\* read past the array, and a Document count above its own table kind stops
\* the loop at the Document element.
C26_LoopStaysInArray ==
  (call.op = "ParseCompressedMetadataTableStream"
     /\ tables.rows_per_table # <<>>)
  => /\ call.exit # "out_of_bounds"
     /\ At(tables.rows_per_table, Document) > Document
        => \E i \in 0..Document :
             /\ At(tables.rows_per_table, i) # 0
             /\ call.exit = "other_table"

\* a header with more Document rows than rows_per_table has elements and no
\* rows of the tables below Document
C26_Witness ==
  /\ call.op = "ParseCompressedMetadataTableStream"
  /\ tables.rows_per_table # <<>>
  /\ At(tables.rows_per_table, Document) > MaxValue
  /\ \A i \in 0..(Document - 1) : At(tables.rows_per_table, i) = 0
  /\ call.exit = "other_table"


\* what a call of ParsePortablePdbStream with outcome r leaves behind
PdbCallReturns(r) ==
  /\ stream' = r.st
  /\ call' = [op |-> "ParsePortablePdbStream", exit |-> r.exit, ret |-> r.ret]

\* a call of ParsePortablePdbStream: pdb_header_ok says ParseFrom decodes
\* the header of the "#Pdb" stream
ParsePortablePdbStream(pdb_header_ok) ==
  /\ call.op # "crashed"
  /\ PdbCallReturns(PdbStreamResult(file_content, stream,
                                    heaps.stream_headers_, pdb_header_ok))
  /\ UNCHANGED <<dbg, pdb, doc, file_content, heaps, tables, document_indices_,
                 threads>>

\* a file whose stream directory and heaps were read and whose "#~" and
\* "#Pdb" streams are not parsed yet: each stream lies inside the file or
\* reaches past its end; no stream length is set
InitLength ==
  /\ \E region \in BlobRegions, offset \in {QueryFileLen - 2, QueryFileLen + 1},
        size \in {1, 3} :
       /\ file_content = QueryFile(region)
       /\ heaps = [ stream_headers_ |->
                      << [name |-> "#Blob", offset |-> 0,
                          size |-> Len(region)],
                         [name |-> "#~", offset |-> offset, size |-> size],
                         [name |-> "#Pdb", offset |-> offset, size |-> size] >>,
                    blob_offset |-> 0,
                    strings_offset |-> Len(region),
                    guid_offset |-> 16 ]
  /\ stream = [iterator_ |-> 0, end_ |-> QueryFileLen]
  /\ pdb = QueryPdb
  /\ doc = NewDocumentIndex
  /\ tables = NewTables
  /\ document_indices_ = <<>>
  /\ call = [op |-> "none"]
  /\ threads = <<>>
  /\ dbg = NoDbgObject

NextLength ==
  \/ \E index \in 0..MaxFile, parse_ok \in BOOLEAN, consumed \in {0, 1} :
       GetMethodSeqInfo(index, parse_ok, consumed)
  \/ \E pdb_header_ok \in BOOLEAN : ParsePortablePdbStream(pdb_header_ok)
  \/ /\ tables.state = "new"
     /\ \E header_ok \in BOOLEAN, valid_mask \in SUBSET {0, Document},
           fails \in {0, Document, LocalConstant} :
          \E num_rows \in [1..Cardinality(valid_mask) -> {0, 1}] :
            ParseCompressedMetadataTableStream(header_ok, valid_mask,
                                               num_rows, fails)

SpecLength == InitLength /\ [][NextLength]_vars

\* the three functions that bound the reader for a nested parse
LengthScopes ==
  {"GetMethodSeqInfo", "ParsePortablePdbStream",
   "ParseCompressedMetadataTableStream"}

\* C24: when GetMethodSeqInfo, ParsePortablePdbStream or
\* ParseCompressedMetadataTableStream, called on a reader with no stream
\* length set, returns, no stream length is set: the end of the reader is
\* the end of the file, whether the nested parse succeeded or failed.
C24_LengthResetOnReturn ==
  call.op \in LengthScopes => stream.end_ = FileEnd(file_content)

\* ParsePortablePdbStream bounded the reader to a stream of one byte inside
\* the file, its nested parse failed, and the bound is gone
C24_Witness ==
  /\ call.op = "ParsePortablePdbStream"
  /\ call.exit = "pdb_header"
  /\ GetStream(heaps.stream_headers_, "#Pdb").header.size = 1
  /\ stream.iterator_ + 1 < FileEnd(file_content)
  /\ stream.end_ = FileEnd(file_content)


\* the document-name blob at blob heap offset index holds the separator and
\* nothing else
SeparatorOnlyBlobIsAt(index) ==
  /\ BlobIsAt(heaps.blob_offset + index)
  /\ Len(BlobBytes(heaps.blob_offset + index)) = 1

\* C27: for a document-name blob that holds only the separator byte,
\* GetDocumentName returns true with the empty name; it does not call
\* pop_back on the empty result string.
C27_SeparatorOnlyName ==
  (/\ call.op \in {"GetDocumentName", "crashed"}
   /\ call.index >= 1
   /\ SeparatorOnlyBlobIsAt(call.index))
  => /\ call.op = "GetDocumentName"
     /\ call.ret
     /\ call.out = <<>>


\* what the call c returns on a reader that no earlier call has left
\* bounded, for any outcome of its nested parse
OutcomesOnFreshReader(c) ==
  UNION { AloneOutcomes([op |-> c.op, index |-> c.index,
                         parse_ok |-> parse_ok, consumed |-> consumed]) :
            parse_ok \in BOOLEAN, consumed \in {0, 1} }

\* C25: a call of GetHeapGuid, GetHash, GetDocumentName or GetMethodSeqInfo
\* that follows a GetDocumentName or GetMethodSeqInfo call which returned
\* false, and that succeeds on a reader no call has left bounded, returns
\* what it returns on that reader: the failed call has no effect on it.
C25_FailedReadLeavesNoTrace ==
  [][ ( /\ call.op \in {"GetDocumentName", "GetMethodSeqInfo"}
        /\ ~call.ret
        /\ call'.op \in {"GetHeapGuid", "GetHash", "GetDocumentName",
                         "GetMethodSeqInfo"}
        /\ \E o \in OutcomesOnFreshReader(call') : o.ret )
      => [crashed |-> FALSE, ret |-> call'.ret, out |-> call'.out]
           \in OutcomesOnFreshReader(call') ]_vars

====
